---- MODULE Spec2Model ----
(***************************************************************************)
(* Threshold ECDSA signer (DKLs23 family): the DKG engine (keygen/dkg.rs), *)
(* the DSG engine (sign/dsg.rs) and the in-memory relay (mpc/memory.rs).   *)
(*                                                                         *)
(* The curve is y^2 = x^3 + 3 (a = 0 as for secp256k1) over GF(7): its     *)
(* group has prime order 13 and generator G = (1, 2).  A curve point is    *)
(* held as its index k (the point k*G, 0 the identity), so point addition  *)
(* is addition mod Order and scalar multiplication is multiplication mod   *)
(* Order; the affine coordinates of k*G are read from XTable / YTable.     *)
(* PartyIds are 0-based as in the code, sequences are 1-based.             *)
(***************************************************************************)
EXTENDS Integers, Sequences, FiniteSets, TLC

\* ------------------------------------------------------------ bounds
\* polynomial coefficients are sampled from 0..MaxCoef
MaxCoef == 1
\* a tampered Round-2 share is the honest one plus 1..MaxDelta
MaxDelta == 1

\* ------------------------------------------------- program constants
NParties == 3
Threshold == 2

Parties == 0 .. (NParties - 1)
Rounds == 1 .. 3

\* ----------------------------------------------------- curve, scalars
\* affine x and y of k*G, k = 1..12, on y^2 = x^3 + 3 over GF(7)
XTable == <<1, 6, 2, 4, 3, 5, 5, 3, 4, 2, 6, 1>>
YTable == <<2, 3, 2, 5, 3, 3, 4, 4, 2, 5, 4, 5>>
\* the group order n (Scalar is an integer in [0, n))
Order == Len(XTable) + 1
Scalars == 0 .. (Order - 1)
Points == 0 .. (Order - 1)

\* Scalar::from(u64)
ScalarFrom(x) == x % Order
\* <Scalar as Reduce<U256>>::reduce_bytes: a 32-byte big-endian integer mod n
reduce_bytes(b) == b % Order
\* Scalar::to_bytes: the canonical representative
to_bytes(s) == s
\* -Scalar
Neg(a) == (Order - (a % Order)) % Order
\* Scalar::invert(): a CtOption, none (here -1) for zero
invert(a) == IF a % Order = 0 THEN -1
             ELSE CHOOSE b \in 1 .. (Order - 1) : (a * b) % Order = 1
\* ProjectivePoint + ProjectivePoint, ProjectivePoint * Scalar
PointAdd(P, Q) == (P + Q) % Order
PointMul(P, s) == (P * s) % Order
\* ProjectivePoint::GENERATOR
GENERATOR == 1
IDENTITY == 0

\* to_affine().to_encoded_point(true): tag 0x02 / 0x03 by the parity of y,
\* then x; the identity encodes as the single byte 0x00
to_encoded_point(P) ==
    IF P = IDENTITY THEN <<0>>
    ELSE <<2 + (YTable[P] % 2), XTable[P]>>
\* EncodedPoint::from_bytes + AffinePoint::from_encoded_point: the point
\* with that x and that parity, -1 when there is none
from_encoded_point(bytes) ==
    IF \E P \in Points : to_encoded_point(P) = bytes
    THEN CHOOSE P \in Points : to_encoded_point(P) = bytes
    ELSE -1
\* to_encoded_point(false).as_bytes()[1..33]: the affine x coordinate
x_coordinate(P) == XTable[P]

\* ------------------------------------------------------------- state
VARIABLES
    broadcasts,   \* MemoryRelay.broadcasts: (session_id, round) -> list
    directs,      \* MemoryRelay.directs: (session_id, round, to) -> list
    dkg,          \* per party: the locals of its run_dkg call
    tampered,     \* the (from, to) pairs whose delivered share was altered
    request,      \* the arguments of run_dsg: key shares, message, parties
    dsg,          \* per party: the locals of its run_dsg call
    sig_tampered, \* the parties that posted a wrong partial signature
    command,      \* the subcommand the party processes were started with
    calls,        \* per party: its outstanding MemoryRelay collect call
    cancelled,    \* whether the caller has raised its cancellation signal
    store,        \* MessageStore.messages of the relay service
    poll,         \* the locals of a RelayClient collect call
    path,         \* the derivation path given to derive_child
    refreshed,    \* per party: what run_key_refresh returned
    derived,      \* per party: what derive_child returned
    partial_sigs, \* per party: the partial signatures made from its PreSignature
    store_messages, \* MessageStore.messages: hash -> StoredMessage
    now,          \* Utc::now() at the relay service
    response,     \* what the last MessageStore call or service handler answered
    created,      \* the last call of SessionConfig::new and what it returned
    configs       \* per party: the SessionConfig its run_keygen made

dkgVars == <<dkg, tampered>>
dsgVars == <<request, dsg, sig_tampered>>
relayVars == <<calls, cancelled>>
clientVars == <<store, poll>>
keyVars == <<path, refreshed, derived>>
storeVars == <<store_messages, now, response>>
extVars == <<partial_sigs, storeVars, created, configs>>
libVars == <<command, relayVars, clientVars, keyVars, extVars>>
vars == <<broadcasts, directs, dkg, tampered, request, dsg, sig_tampered,
          command, calls, cancelled, store, poll, path, refreshed, derived,
          partial_sigs, store_messages, now, response, created, configs>>

\* an insert that replaces the list under the key
push_overwrite(map, key, bytes) ==
    IF key \in DOMAIN map
    THEN [map EXCEPT ![key] = <<bytes>>]
    ELSE map @@ (key :> <<bytes>>)

\* DashMap entry(key).or_default().push(bytes)
push(map, key, bytes) ==
    IF key \in DOMAIN map
    THEN [map EXCEPT ![key] = Append(@, bytes)]
    ELSE map @@ (key :> <<bytes>>)

\* the first count messages, last first
take_reversed(messages, count) ==
    [k \in 1 .. count |-> messages[count + 1 - k]]

\* messages.iter().take(count): the first count messages, all of them when
\* there are fewer
take(messages, count) ==
    SubSeq(messages, 1, IF count < Len(messages) THEN count ELSE Len(messages))

\* the same test passing one message early
collect_ready_early(map, key, count) ==
    key \in DOMAIN map /\ Len(map[key]) >= count - 1

\* the same test asking for one message more
collect_ready_more(map, key, count) ==
    key \in DOMAIN map /\ Len(map[key]) > count

\* the ready test of collect_broadcasts / collect_direct: the key is present
\* and holds at least count messages
collect_ready(map, key, count) ==
    key \in DOMAIN map /\ Len(map[key]) >= count


\* ---------------------------------------------------------------- DKG
\* the SessionConfig every party of the run is given: one session_id,
\* parties = 0..n-1 (SessionConfig::new)
DkgConfig(i) ==
    [session_id |-> 1, n_parties |-> NParties, threshold |-> Threshold,
     party_id |-> i, parties |-> [k \in 1 .. NParties |-> k - 1]]

Coefs == 0 .. MaxCoef
\* the 32 random bytes of a chain code: two values
ChainCodes == {0, 1}

\* generate_secret_polynomial: the commitments to the coefficients
commit_polynomial(coefficients) ==
    [k \in 1 .. Len(coefficients) |->
        to_encoded_point(PointMul(GENERATOR, coefficients[k]))]

\* the loop of evaluate_polynomial: ascending powers of x
RECURSIVE eval_loop(_, _, _, _)
eval_loop(coefficients, x_scalar, result, x_power) ==
    IF coefficients = <<>> THEN result
    ELSE eval_loop(Tail(coefficients), x_scalar,
                   (result + Head(coefficients) * x_power) % Order,
                   (x_power * x_scalar) % Order)

evaluate_polynomial(coefficients, x) ==
    eval_loop(coefficients, ScalarFrom(x), 0, 1)

\* the loop of verify_share and of compute_public_shares over one commitment
\* vector: actual + commitment * x_power; -1 once a commitment does not decode
RECURSIVE commit_loop(_, _, _, _)
commit_loop(commitments, x_scalar, actual, x_power) ==
    IF commitments = <<>> THEN actual
    ELSE LET point == from_encoded_point(Head(commitments)) IN
         IF point = -1 THEN -1
         ELSE commit_loop(Tail(commitments), x_scalar,
                          PointAdd(actual, PointMul(point, x_power)),
                          (x_power * x_scalar) % Order)

\* verify_share: "Ok", or "VerificationFailed"
verify_share(share_msg, commitments, my_id) ==
    LET share == reduce_bytes(share_msg.share)
        expected == PointMul(GENERATOR, share)
        actual == commit_loop(commitments, ScalarFrom(my_id + 1), IDENTITY, 1)
    IN  IF actual = -1 \/ expected # actual THEN "VerificationFailed" ELSE "Ok"

\* compute_public_key: the sum of the first commitment of every message
\* (<<-1>> for an empty or undecodable commitment: VerificationFailed)
RECURSIVE public_key_loop(_, _)
public_key_loop(all_commitments, public_key) ==
    IF all_commitments = <<>> THEN to_encoded_point(public_key)
    ELSE LET c == Head(all_commitments).commitments IN
         IF c = <<>> \/ from_encoded_point(c[1]) = -1 THEN <<-1>>
         ELSE public_key_loop(Tail(all_commitments),
                              PointAdd(public_key, from_encoded_point(c[1])))

\* the same sum started from the generator instead of the identity
compute_public_key_from_generator(all_commitments) ==
    public_key_loop(all_commitments, GENERATOR)

compute_public_key(all_commitments) ==
    public_key_loop(all_commitments, IDENTITY)

\* compute_public_shares: for every party p the sum over all messages of the
\* commitment vector evaluated at p + 1
RECURSIVE public_share_loop(_, _, _)
public_share_loop(all_commitments, x, public_share) ==
    IF all_commitments = <<>> THEN public_share
    ELSE LET v == commit_loop(Head(all_commitments).commitments,
                              ScalarFrom(x), IDENTITY, 1) IN
         IF v = -1 \/ public_share = -1 THEN -1
         ELSE public_share_loop(Tail(all_commitments), x,
                                PointAdd(public_share, v))

\* public shares evaluated at the party id p instead of p + 1
compute_public_shares_at_id(all_commitments, n_parties) ==
    [q \in 1 .. n_parties |->
        LET ps == public_share_loop(all_commitments, q - 1, IDENTITY) IN
        IF ps = -1 THEN <<-1>> ELSE to_encoded_point(ps)]

compute_public_shares(all_commitments, n_parties) ==
    [q \in 1 .. n_parties |->
        LET ps == public_share_loop(all_commitments, q, IDENTITY) IN
        IF ps = -1 THEN <<-1>> ELSE to_encoded_point(ps)]

\* the Round-2 loop of run_dkg: one send_direct per other party, in the
\* order of config.parties; share_of[p] is the 32-byte share sent to p
RECURSIVE send_shares(_, _, _, _)
send_shares(map, config, share_of, k) ==
    IF k > Len(config.parties) THEN map
    ELSE LET party_id == config.parties[k] IN
         IF party_id = config.party_id
         THEN send_shares(map, config, share_of, k + 1)
         ELSE send_shares(
                push(map, <<config.session_id, 2, party_id>>,
                     [from |-> config.party_id, to |-> party_id,
                      share |-> share_of[party_id]]),
                config, share_of, k + 1)

\* the shares an honest party sends: f_i(p + 1) for every party p
honest_shares(secret_poly) ==
    [p \in Parties |-> to_bytes(evaluate_polynomial(secret_poly, p + 1))]

\* the first received share, in arrival order, at which the verify loop
\* stops: share_msg.from is not an index of all_commitments, or verify_share
\* against all_commitments[share_msg.from] fails (0 when every share passes)
first_failed(received_shares, all_commitments, my_id) ==
    LET bad == {k \in 1 .. Len(received_shares) :
                  \/ received_shares[k].from >= Len(all_commitments)
                  \/ verify_share(received_shares[k],
                        all_commitments[received_shares[k].from + 1].commitments,
                        my_id) # "Ok"}
    IN  IF bad = {} THEN 0 ELSE CHOOSE k \in bad : \A l \in bad : k <= l

\* final_secret: the own evaluation plus every received share
RECURSIVE sum_shares(_, _)
sum_shares(received_shares, final_secret) ==
    IF received_shares = <<>> THEN final_secret
    ELSE sum_shares(Tail(received_shares),
                    (final_secret + reduce_bytes(Head(received_shares).share)) % Order)

NoKeyShare ==
    [party_id |-> -1, n_parties |-> 0, threshold |-> 0, secret_share |-> 0,
     public_key |-> <<>>, public_shares |-> <<>>, chain_code |-> 0]

Running == [tag |-> "Running", from |-> -1, key_share |-> NoKeyShare]

\* Round 3 of run_dkg: verify, then build the KeyShare ("Panic": the index
\* all_commitments[share_msg.from] is out of bounds and the task panics)
dkg_round3(config, secret_poly, all_commitments, received_shares, chain_code) ==
    LET failed == first_failed(received_shares, all_commitments, config.party_id)
        public_key == compute_public_key(all_commitments)
        public_shares == compute_public_shares(all_commitments, config.n_parties)
    IN  IF failed # 0 /\ received_shares[failed].from >= Len(all_commitments)
        THEN [tag |-> "Panic",
              from |-> received_shares[failed].from, key_share |-> NoKeyShare]
        ELSE IF failed # 0
        THEN [tag |-> "VerificationFailed",
              from |-> received_shares[failed].from, key_share |-> NoKeyShare]
        ELSE IF public_key = <<-1>> \/ \E q \in DOMAIN public_shares :
                                          public_shares[q] = <<-1>>
        THEN [tag |-> "VerificationFailed", from |-> -1, key_share |-> NoKeyShare]
        ELSE [tag |-> "Ok", from |-> -1,
              key_share |->
                [party_id |-> config.party_id, n_parties |-> config.n_parties,
                 threshold |-> config.threshold,
                 secret_share |->
                    sum_shares(received_shares,
                        evaluate_polynomial(secret_poly, config.party_id + 1)),
                 public_key |-> public_key, public_shares |-> public_shares,
                 chain_code |-> chain_code]]

DkgIdle ==
    [i \in Parties |->
        [pc |-> "round1", secret_poly |-> <<>>,
         all_commitments |-> <<>>, result |-> Running]]

NoSignature == [r |-> 0, s |-> 0, recovery_id |-> 0]

NoPreSignature ==
    [session_id |-> 0, parties |-> <<>>, r_point |-> <<>>,
     k_inv_share |-> 0, chi_share |-> 0]

DsgIdle ==
    [i \in Parties |->
        [pc |-> "idle", session_id |-> 0, k_i |-> 0, gamma_i |-> 0,
         round1_msgs |-> <<>>, pre_sig |-> NoPreSignature,
         result |-> [tag |-> "Running", signature |-> NoSignature]]]

\* a collect call of MemoryRelay that has not been made
NoCall ==
    [pc |-> "idle", kind |-> "none", count |-> 0,
     result |-> [tag |-> "Running", messages |-> <<>>]]

\* a collect call of RelayClient that has not been made
NoPoll ==
    [pc |-> "idle", kind |-> "none", my_id |-> 0, count |-> 0,
     messages |-> <<>>, attempts |-> 0,
     result |-> [tag |-> "Running", messages |-> <<>>]]

NoResult == [tag |-> "Running", key_share |-> NoKeyShare]

\* Option::None in a MessageId and in a response
None == -1

NoMessageId ==
    [session_id |-> <<>>, round |-> 0, from |-> None, to |-> None, tag |-> <<>>]

NoStoredMessage ==
    [id |-> NoMessageId, payload |-> <<>>, created_at |-> 0, expires_at |-> 0]

\* no MessageStore call has been made
NoResponse ==
    [op |-> "none", id |-> NoMessageId, tag |-> "none",
     message |-> NoStoredMessage, hash |-> <<>>, found |-> FALSE,
     payload |-> <<>>]

NoConfig ==
    [session_id |-> 0, n_parties |-> 0, threshold |-> 0, party_id |-> 0,
     parties |-> <<>>]

\* SessionConfig::new has not been called
NoCreated ==
    [n_parties |-> 0, threshold |-> 0, party_id |-> 0, tag |-> "none",
     config |-> NoConfig]

\* an empty MessageStore, no PreSignature in use, no SessionConfig made
ExtInit ==
    /\ partial_sigs = [i \in Parties |-> <<>>]
    /\ store_messages = <<>>
    /\ now = 0
    /\ response = NoResponse
    /\ created = NoCreated
    /\ configs = [i \in Parties |-> NoConfig]

\* the state of everything a run of the given subcommand does not touch
LibInit(cmd) ==
    /\ command = cmd
    /\ calls = [i \in Parties |-> NoCall]
    /\ cancelled = FALSE
    /\ store = <<>>
    /\ poll = NoPoll
    /\ path = <<>>
    /\ refreshed = [i \in Parties |-> NoResult]
    /\ derived = [i \in Parties |-> NoResult]
    /\ ExtInit

DkgInit ==
    /\ broadcasts = <<>>
    /\ directs = <<>>
    /\ dkg = DkgIdle
    /\ tampered = {}
    /\ request = [key_shares |-> <<>>, message |-> 0, parties |-> <<>>]
    /\ dsg = DsgIdle
    /\ sig_tampered = {}
    /\ LibInit("keygen")

\* run_dkg up to its first collect: sample the polynomial, broadcast the
\* commitments
DkgRound1(i) ==
    /\ dkg[i].pc = "round1"
    /\ \E secret_poly \in [1 .. Threshold -> Coefs] :
         /\ dkg' = [dkg EXCEPT ![i].pc = "collect1",
                               ![i].secret_poly = secret_poly]
         /\ broadcasts' = push(broadcasts, <<DkgConfig(i).session_id, 1>>,
                               [party_id |-> i,
                                commitments |-> commit_polynomial(secret_poly)])
    /\ UNCHANGED <<directs, tampered, dsgVars, libVars>>

\* collect_broadcasts(session, 1, n) returns; the Round-2 shares are sent
DkgRound2(i) ==
    /\ dkg[i].pc = "collect1"
    /\ collect_ready(broadcasts, <<DkgConfig(i).session_id, 1>>, NParties)
    /\ dkg' = [dkg EXCEPT ![i].pc = "collect2",
                          ![i].all_commitments =
                              take(broadcasts[<<DkgConfig(i).session_id, 1>>],
                                   DkgConfig(i).n_parties)]
    /\ directs' = send_shares(directs, DkgConfig(i),
                              honest_shares(dkg[i].secret_poly), 1)
    /\ UNCHANGED <<broadcasts, tampered, dsgVars, libVars>>

\* the same step of a party that delivers a wrong share to one receiver
DkgRound2Tampered(i) ==
    /\ dkg[i].pc = "collect1"
    /\ tampered = {}
    /\ collect_ready(broadcasts, <<DkgConfig(i).session_id, 1>>, NParties)
    /\ \E to \in Parties \ {i}, delta \in 1 .. MaxDelta :
         /\ directs' = send_shares(directs, DkgConfig(i),
                          [honest_shares(dkg[i].secret_poly) EXCEPT ![to] = @ + delta], 1)
         /\ tampered' = {<<i, to>>}
    /\ dkg' = [dkg EXCEPT ![i].pc = "collect2",
                          ![i].all_commitments =
                              take(broadcasts[<<DkgConfig(i).session_id, 1>>],
                                   DkgConfig(i).n_parties)]
    /\ UNCHANGED <<broadcasts, dsgVars, libVars>>

\* collect_direct(session, 2, i, n - 1) returns; Round 3 ends the call
DkgRound3(i) ==
    /\ dkg[i].pc = "collect2"
    /\ collect_ready(directs, <<DkgConfig(i).session_id, 2, i>>, NParties - 1)
    /\ \E chain_code \in ChainCodes :
         dkg' = [dkg EXCEPT ![i].pc = "returned",
                   ![i].result =
                      dkg_round3(DkgConfig(i), dkg[i].secret_poly,
                         dkg[i].all_commitments,
                         take(directs[<<DkgConfig(i).session_id, 2, i>>],
                              DkgConfig(i).n_parties - 1),
                         chain_code)]
    /\ UNCHANGED <<broadcasts, directs, tampered, dsgVars, libVars>>

DkgNext ==
    \E i \in Parties : DkgRound1(i) \/ DkgRound2(i) \/ DkgRound3(i)

DkgFaultNext ==
    \E i \in Parties :
        DkgRound1(i) \/ DkgRound2(i) \/ DkgRound2Tampered(i) \/ DkgRound3(i)

\* a peer sends party `to` a Round-2 message whose `from` field is not the id
\* of a party, with the share it owes that party
DkgRound2Forged(i, to) ==
    /\ dkg[i].pc = "collect1"
    /\ tampered = {}
    /\ to # i
    /\ directs' = push(directs, <<DkgConfig(i).session_id, 2, to>>,
                       [from |-> NParties, to |-> to,
                        share |-> honest_shares(dkg[i].secret_poly)[to]])
    /\ tampered' = {<<i, to>>}
    /\ UNCHANGED <<broadcasts, dkg, dsgVars, libVars>>

DkgForgedNext ==
    \E i \in Parties :
        \/ DkgRound1(i) \/ DkgRound2(i) \/ DkgRound3(i)
        \/ \E to \in Parties : DkgRound2Forged(i, to)

\* the parties all run run_dkg
SpecDKG == DkgInit /\ [][DkgNext]_vars
\* one party may send one Round-2 message with a forged sender
SpecDKGForged == DkgInit /\ [][DkgForgedNext]_vars
\* one party may deliver one wrong Round-2 share
SpecDKGFault == DkgInit /\ [][DkgFaultNext]_vars


\* ------------------------------------------------- Lagrange weighting
\* the same loop with the sign of a negative difference dropped
lagrange_loop_unsigned(parties, i, numerator, denominator) ==
    LET others == SelectSeq(parties, LAMBDA q : q + 1 # i)
        absdiff(j) == IF j > i THEN j - i ELSE i - j
        RECURSIVE prod(_, _, _)
        prod(rest, num, den) ==
            IF rest = <<>> THEN <<num, den>>
            ELSE prod(Tail(rest), (num * ScalarFrom(Head(rest) + 1)) % Order,
                      (den * ScalarFrom(absdiff(Head(rest) + 1))) % Order)
    IN  prod(others, numerator, denominator)

\* the loop of compute_lagrange_coefficient: <<numerator, denominator>>
RECURSIVE lagrange_loop(_, _, _, _)
lagrange_loop(parties, i, numerator, denominator) ==
    IF parties = <<>> THEN <<numerator, denominator>>
    ELSE LET j == Head(parties) + 1 IN
         IF j # i
         THEN lagrange_loop(Tail(parties), i,
                  (numerator * ScalarFrom(j)) % Order,
                  (denominator * (IF j > i THEN ScalarFrom(j - i)
                                  ELSE Neg(ScalarFrom(i - j)))) % Order)
         ELSE lagrange_loop(Tail(parties), i, numerator, denominator)

\* numerator * denominator.invert().unwrap_or(Scalar::ONE)
compute_lagrange_coefficient(party_id, parties) ==
    LET nd == lagrange_loop(parties, party_id + 1, 1, 1)
        inv == invert(nd[2])
    IN  (nd[1] * (IF inv = -1 THEN 1 ELSE inv)) % Order

\* ---------------------------------------------------------------- DSG
\* bounds: session ids are sampled from 1..NumSessions, the nonces k_i from
\* 1..MaxNonce, message digests from 0..MaxDigest
NumSessions == 2
MaxNonce == 2
MaxDigest == 1

SessionIds == 1 .. NumSessions
Nonces == 1 .. MaxNonce
\* gamma_i reaches only the wire (delta_share is never read): one value
Gammas == {1}
Digests == 0 .. MaxDigest

Range(seq) == {seq[k] : k \in DOMAIN seq}

\* the --parties lists tried: every non-decreasing list of 1..n party ids
\* (repeated ids included)
PartyLists ==
    {l \in UNION {[1 .. len -> Parties] : len \in 1 .. NParties} :
        \A k \in 1 .. (Len(l) - 1) : l[k] <= l[k + 1]}

\* the polynomials of the key generation whose KeyShares are signed with
KeyGenPolys ==
    {[j \in Parties |-> <<1, 1>>], [j \in Parties |-> <<j + 1, 1>>]}

\* the KeyShares run_dkg returns to the parties for these polynomials (the
\* Round-1 broadcasts arriving in the order of the party ids)
KeySharesOf(polys) ==
    LET all_commitments ==
            [k \in 1 .. NParties |->
                [party_id |-> k - 1,
                 commitments |-> commit_polynomial(polys[k - 1])]]
        received(i) ==
            LET senders == SelectSeq([k \in 1 .. NParties |-> k - 1],
                                     LAMBDA j : j # i)
            IN  [k \in 1 .. Len(senders) |->
                    [from |-> senders[k], to |-> i,
                     share |-> honest_shares(polys[senders[k]])[i]]]
    IN  [i \in Parties |->
            dkg_round3(DkgConfig(i), polys[i], all_commitments,
                       received(i), 0).key_share]

\* the two checks at the head of run_dsg, threshold first
\* (the variant below compares with <= )
run_dsg_precheck_le(key_share, parties) ==
    IF Len(parties) <= key_share.threshold THEN "ThresholdNotMet"
    ELSE IF key_share.party_id \notin Range(parties) THEN "InvalidPartyId"
    ELSE "Ok"

run_dsg_precheck(key_share, parties) ==
    IF Len(parties) < key_share.threshold THEN "ThresholdNotMet"
    ELSE IF key_share.party_id \notin Range(parties) THEN "InvalidPartyId"
    ELSE "Ok"

\* R = sum of the k_commitments of the Round-1 messages (-1: one of them does
\* not decode)
RECURSIVE r_point_loop(_, _)
r_point_loop(round1_msgs, r_point) ==
    IF round1_msgs = <<>> THEN r_point
    ELSE LET c == from_encoded_point(Head(round1_msgs).k_commitment) IN
         IF c = -1 THEN -1
         ELSE r_point_loop(Tail(round1_msgs), PointAdd(r_point, c))

\* pre_signature after its Round-2 collect: the PreSignature, or the error
\* (r_bytes: [u8; 33] fails for the 1-byte encoding of the identity)
pre_signature(key_share, config, k_i, round1_msgs) ==
    LET lambda_i == compute_lagrange_coefficient(config.party_id, config.parties)
        x_i == (key_share.secret_share * lambda_i) % Order
        k_inv_share == k_i
        chi_share == (x_i * k_i) % Order
        r_point == r_point_loop(round1_msgs, IDENTITY)
    IN  IF r_point = -1
        THEN [tag |-> "VerificationFailed", pre_sig |-> NoPreSignature]
        ELSE IF Len(to_encoded_point(r_point)) # 2
        THEN [tag |-> "Internal", pre_sig |-> NoPreSignature]
        ELSE [tag |-> "Ok",
              pre_sig |-> [session_id |-> config.session_id,
                           parties |-> config.parties,
                           r_point |-> to_encoded_point(r_point),
                           k_inv_share |-> to_bytes(k_inv_share),
                           chi_share |-> to_bytes(chi_share)]]

\* create_partial_signature: sigma = k_inv_share * m + r * chi_share
create_partial_signature(key_share, pre_sig, message) ==
    LET k_inv_share == reduce_bytes(pre_sig.k_inv_share)
        chi_share == reduce_bytes(pre_sig.chi_share)
        r_affine == from_encoded_point(pre_sig.r_point)
        r == reduce_bytes(x_coordinate(r_affine))
        m == reduce_bytes(message)
        sigma_share == (k_inv_share * m + r * chi_share) % Order
    IN  [party_id |-> 0, sigma_share |-> to_bytes(sigma_share)]

RECURSIVE sigma_loop(_, _)
sigma_loop(partials, s) ==
    IF partials = <<>> THEN s
    ELSE sigma_loop(Tail(partials),
                    (s + reduce_bytes(Head(partials).sigma_share)) % Order)

\* combine_partial_signatures: r is the x coordinate of R, s the sum of the
\* sigma shares as it is, recovery_id the parity tag of R
combine_partial_signatures(pre_sig, partials, message) ==
    LET s == sigma_loop(partials, 0)
        r_affine == from_encoded_point(pre_sig.r_point)
        r == x_coordinate(r_affine)
        s_normalized == to_bytes(s)
        recovery_id == IF to_encoded_point(r_affine)[1] = 3 THEN 1 ELSE 0
    IN  [r |-> r, s |-> s_normalized, recovery_id |-> recovery_id]

\* the SessionConfig run_dsg builds
DsgConfig(i, session_id) ==
    [session_id |-> session_id, n_parties |-> Len(request.parties),
     threshold |-> request.key_shares[i].threshold,
     party_id |-> request.key_shares[i].party_id,
     parties |-> request.parties]

DsgInit ==
    /\ broadcasts = <<>>
    /\ directs = <<>>
    /\ dkg = DkgIdle
    /\ tampered = {}
    /\ \E polys \in KeyGenPolys, message \in Digests, parties \in PartyLists :
         request = [key_shares |-> KeySharesOf(polys), message |-> message,
                    parties |-> parties]
    /\ dsg = DsgIdle
    /\ sig_tampered = {}
    /\ LibInit("sign")

DsgReturn(i, tag, signature) ==
    [dsg EXCEPT ![i].pc = "returned",
                ![i].result = [tag |-> tag, signature |-> signature]]

\* run_dsg up to the Round-1 collect of pre_signature: the two checks, a fresh
\* session_id, k_i and gamma_i, the Round-1 broadcast
DsgStart(i) ==
    /\ dsg[i].pc = "idle"
    /\ LET check == run_dsg_precheck(request.key_shares[i], request.parties) IN
       IF check # "Ok"
       THEN /\ dsg' = DsgReturn(i, check, NoSignature)
            /\ UNCHANGED broadcasts
       ELSE \E session_id \in SessionIds, k_i \in Nonces, gamma_i \in Gammas :
              /\ dsg' = [dsg EXCEPT ![i].pc = "collect1",
                                    ![i].session_id = session_id,
                                    ![i].k_i = k_i, ![i].gamma_i = gamma_i]
              /\ broadcasts' = push(broadcasts, <<session_id, 1>>,
                    [party_id |-> i,
                     k_commitment |-> to_encoded_point(PointMul(GENERATOR, k_i)),
                     gamma_commitment |->
                        to_encoded_point(PointMul(GENERATOR, gamma_i))])
    /\ UNCHANGED <<directs, dkgVars, libVars, request, sig_tampered>>

\* the Round-1 collect returns; the Round-2 broadcast
DsgRound2(i) ==
    /\ dsg[i].pc = "collect1"
    /\ collect_ready(broadcasts, <<dsg[i].session_id, 1>>, Len(request.parties))
    /\ dsg' = [dsg EXCEPT ![i].pc = "collect2",
                 ![i].round1_msgs = take(broadcasts[<<dsg[i].session_id, 1>>],
                                         Len(request.parties))]
    /\ broadcasts' = push(broadcasts, <<dsg[i].session_id, 2>>,
            [party_id |-> i,
             delta_share |-> to_bytes((dsg[i].k_i * dsg[i].gamma_i) % Order)])
    /\ UNCHANGED <<directs, dkgVars, libVars, request, sig_tampered>>

\* the Round-2 collect returns: pre_signature ends, the partial signature is
\* made and broadcast in Round 3; delta is added to a wrong sigma_share
DsgRound3Send(i, delta) ==
    /\ dsg[i].pc = "collect2"
    /\ collect_ready(broadcasts, <<dsg[i].session_id, 2>>, Len(request.parties))
    /\ LET pre == pre_signature(request.key_shares[i],
                                DsgConfig(i, dsg[i].session_id),
                                dsg[i].k_i, dsg[i].round1_msgs)
       IN  IF pre.tag # "Ok"
           THEN /\ dsg' = DsgReturn(i, pre.tag, NoSignature)
                /\ UNCHANGED broadcasts
           ELSE LET partial == create_partial_signature(request.key_shares[i],
                                   pre.pre_sig, request.message)
                IN  /\ dsg' = [dsg EXCEPT ![i].pc = "collect3",
                                          ![i].pre_sig = pre.pre_sig]
                    /\ broadcasts' = push(broadcasts, <<dsg[i].session_id, 3>>,
                          [party_id |-> i,
                           sigma_share |->
                              to_bytes((reduce_bytes(partial.sigma_share)
                                        + delta) % Order)])
    /\ UNCHANGED <<directs, dkgVars, libVars, request>>

DsgRound3(i) ==
    /\ DsgRound3Send(i, 0)
    /\ UNCHANGED sig_tampered

\* the same step of a party that posts a wrong partial signature
DsgRound3Tampered(i) ==
    /\ sig_tampered = {}
    /\ \E delta \in 1 .. MaxDelta : DsgRound3Send(i, delta)
    /\ dsg'[i].pc = "collect3"
    /\ sig_tampered' = {i}

\* the Round-3 collect returns; the partial signatures are combined
DsgFinish(i) ==
    /\ dsg[i].pc = "collect3"
    /\ collect_ready(broadcasts, <<dsg[i].session_id, 3>>, Len(request.parties))
    /\ dsg' = DsgReturn(i, "Ok",
                combine_partial_signatures(dsg[i].pre_sig,
                    take(broadcasts[<<dsg[i].session_id, 3>>],
                         Len(request.parties)),
                    request.message))
    /\ UNCHANGED <<broadcasts, directs, dkgVars, libVars, request, sig_tampered>>

DsgNext ==
    \E i \in Parties :
        DsgStart(i) \/ DsgRound2(i) \/ DsgRound3(i) \/ DsgFinish(i)

DsgFaultNext ==
    \E i \in Parties :
        \/ DsgStart(i) \/ DsgRound2(i) \/ DsgRound3(i) \/ DsgFinish(i)
        \/ DsgRound3Tampered(i)

\* a started run_dsg task keeps running; whether a party calls run_dsg at all
\* is the caller's choice
DsgFairness ==
    \A i \in Parties :
        WF_vars(DsgRound2(i)) /\ WF_vars(DsgRound3(i)) /\ WF_vars(DsgFinish(i))

SpecDSG == DsgInit /\ [][DsgNext]_vars
SpecDSGFault == DsgInit /\ [][DsgFaultNext]_vars
FairSpecDSG == DsgInit /\ [][DsgNext]_vars /\ DsgFairness

\* ------------------------------------------------------ claims: DKG
RECURSIVE SumOver(_, _)
SumOver(S, f) ==
    IF S = {} THEN 0
    ELSE LET e == CHOOSE e \in S : TRUE IN f[e] + SumOver(S \ {e}, f)

\* the members of S in ascending order
RECURSIVE Ascending(_)
Ascending(S) ==
    IF S = {} THEN <<>>
    ELSE LET m == CHOOSE m \in S : \A e \in S : m <= e
         IN  <<m>> \o Ascending(S \ {m})

DkgAllOk == \A i \in Parties : dkg[i].result.tag = "Ok"

\* the secret x: the sum of all parties' constant coefficients
DkgSecret == SumOver(Parties, [j \in Parties |-> dkg[j].secret_poly[1]]) % Order

\* the sum over all parties j of the constant-term commitment C_{j,0}
DkgCommitmentSum ==
    SumOver(Parties, [j \in Parties |->
        PointMul(GENERATOR, dkg[j].secret_poly[1])]) % Order

\* C1: when all n parties of one session return Ok, every returned KeyShare
\* carries the same public_key, the encoded sum of the commitments C_{j,0}.
C1_PublicKeyAgreement ==
    DkgAllOk =>
        \A i \in Parties :
            dkg[i].result.key_share.public_key = to_encoded_point(DkgCommitmentSum)

C1_Witness ==
    /\ DkgAllOk
    /\ DkgCommitmentSum # IDENTITY
    /\ \E i, j \in Parties : dkg[i].secret_poly[1] # dkg[j].secret_poly[1]

\* the Lagrange-weighted sum of the secret shares of the parties of S
Reconstruct(S) ==
    SumOver(S, [i \in S |->
        compute_lagrange_coefficient(i, Ascending(S))
            * dkg[i].result.key_share.secret_share]) % Order

\* C2: after a DKG in which every party returned Ok, the secret shares of every
\* set S of at least t parties, weighted by the Lagrange coefficients at 0 for
\* the points i + 1, sum to the secret x = sum of the constant coefficients,
\* whose public point is public_key.
C2_SharesReconstruct ==
    DkgAllOk =>
        \A S \in SUBSET Parties :
            Cardinality(S) >= Threshold =>
                /\ Reconstruct(S) = DkgSecret
                /\ \A i \in Parties :
                     dkg[i].result.key_share.public_key
                        = to_encoded_point(PointMul(GENERATOR, Reconstruct(S)))

C2_Witness ==
    /\ DkgAllOk
    /\ DkgSecret # 0
    /\ \E i, j \in Parties :
         dkg[i].result.key_share.secret_share
            # dkg[j].result.key_share.secret_share

\* C3: in a run in which all parties follow the protocol no party aborts with
\* VerificationFailed, whatever the order of arrival at the relay.
C3_NoHonestAbort ==
    \A i \in Parties : dkg[i].result.tag # "VerificationFailed"

\* C4: a party that was delivered a wrong share by j ends with
\* VerificationFailed naming j, and with no KeyShare.
C4_BadShareCaught ==
    \A pair \in tampered :
        dkg[pair[2]].pc = "returned" =>
            /\ dkg[pair[2]].result.tag = "VerificationFailed"
            /\ dkg[pair[2]].result.from = pair[1]
            /\ dkg[pair[2]].result.key_share = NoKeyShare

\* ------------------------------------------------------ claims: DSG
\* stock ECDSA verification of (r, s) for the digest m under the encoded
\* public key: r, s in [1, n-1] and x(m/s * G + r/s * Q) mod n = r
EcdsaVerify(public_key, m, signature) ==
    LET Q == from_encoded_point(public_key)
        r == signature.r
        s == signature.s
    IN  /\ Q # -1 /\ Q # IDENTITY
        /\ r \in 1 .. (Order - 1)
        /\ s \in 1 .. (Order - 1)
        /\ LET w == invert(s)
               u1 == (reduce_bytes(m) * w) % Order
               u2 == (r * w) % Order
               P == PointAdd(PointMul(GENERATOR, u1), PointMul(Q, u2))
           IN  P # IDENTITY /\ x_coordinate(P) % Order = r

\* the signing set of the request, and whether the list names each party once
SigningSet == Range(request.parties)
DistinctParties == Cardinality(SigningSet) = Len(request.parties)

SignedOk(i) == dsg[i].pc = "returned" /\ dsg[i].result.tag = "Ok"

\* the parties that run_dsg has been called for
Called(i) == dsg[i].pc # "idle"

\* the parties whose run_dsg call is past its Round-1 broadcast
Posted(i) ==
    \E key \in DOMAIN broadcasts, k \in 1 .. NParties :
        k <= Len(broadcasts[key]) /\ broadcasts[key][k].party_id = i

\* R = (sum of the k_i of the signing set) * G
NonceSumPoint ==
    PointMul(GENERATOR, SumOver(SigningSet, [j \in SigningSet |-> dsg[j].k_i]) % Order)

\* C5: for the KeyShares of a successful DKG, a signing set S of at least t
\* parties and a digest m, the signature combined from the partial signatures
\* of all parties of S satisfies the ECDSA verification equation for
\* public_key and m, with r the x coordinate of R = (sum of k_i) * G.
C5_SignatureVerifies ==
    \A i \in Parties :
        (SignedOk(i) /\ DistinctParties /\ Len(request.parties) >= Threshold) =>
            /\ dsg[i].result.signature.r = x_coordinate(NonceSumPoint)
            /\ EcdsaVerify(request.key_shares[i].public_key, request.message,
                           dsg[i].result.signature)

\* C6: the parties of a signing set that call run_dsg with the same digest and
\* parties list over one relay exchange their round messages under one common
\* session_id.
C6_CommonSession ==
    \A i, j \in SigningSet :
        (Posted(i) /\ Posted(j)) => dsg[i].session_id = dsg[j].session_id

\* C7: when a party p of the signing set never posts its Round-1 message,
\* the Round-1 collect of every other party i of the set ends with Timeout.
C7_MissingPartyTimeout ==
    \A p \in Parties : \A i \in Parties \ {p} :
        ([](p \in SigningSet /\ i \in SigningSet /\ dsg[p].pc = "idle"))
            => (dsg[i].pc = "collect1" ~> dsg[i].result.tag = "Timeout")

\* C8: every Signature run_dsg returns has s <= n/2.
C8_LowS ==
    \A i \in Parties :
        SignedOk(i) => dsg[i].result.signature.s <= Order \div 2

\* C9: when a collected partial signature is wrong, run_dsg never returns Ok
\* with a signature that fails verification against public_key and m.
C9_WrongPartialRejected ==
    \A i \in Parties :
        (/\ SignedOk(i)
         /\ \E j \in sig_tampered : dsg[j].session_id = dsg[i].session_id)
            => EcdsaVerify(request.key_shares[i].public_key, request.message,
                           dsg[i].result.signature)

\* C10 as stated: a called run_dsg has returned ThresholdNotMet when the list
\* has fewer than threshold entries, InvalidPartyId when the caller's party_id
\* is not in the list, and in both cases has posted nothing.
C10_PrecheckAsStated ==
    \A i \in Parties :
        Called(i) =>
            /\ Len(request.parties) < request.key_shares[i].threshold
                 => dsg[i].result.tag = "ThresholdNotMet" /\ ~Posted(i)
            /\ i \notin SigningSet
                 => dsg[i].result.tag = "InvalidPartyId" /\ ~Posted(i)

\* C10: a called run_dsg has returned ThresholdNotMet when the list has fewer
\* than threshold entries, and InvalidPartyId when the list has at least
\* threshold entries and the caller's party_id is not in it; in both cases it
\* has posted nothing to the relay, and it returns neither error otherwise.
C10_Precheck ==
    \A i \in Parties :
        Called(i) =>
            LET short == Len(request.parties) < request.key_shares[i].threshold
                absent == i \notin SigningSet
            IN  /\ short => dsg[i].result.tag = "ThresholdNotMet" /\ ~Posted(i)
                /\ (~short /\ absent)
                     => dsg[i].result.tag = "InvalidPartyId" /\ ~Posted(i)
                /\ (~short /\ ~absent)
                     => dsg[i].result.tag \notin {"ThresholdNotMet", "InvalidPartyId"}

C10_Witness ==
    \E i, j \in Parties :
        /\ dsg[i].pc = "returned" /\ dsg[i].result.tag = "InvalidPartyId"
        /\ ~Posted(i)
        /\ dsg[j].pc = "collect3"

\* -------------------------------------------------- MemoryRelay calls
\* bound: the number of messages posted to the relay
MaxPosts == 2

\* the payload values of the relay's tests
Values == {42, 43}
\* the parties that call collect, and the counts they ask for
Collectors == {0, 1}
Counts == 1 .. (NParties - 1)

\* a message as the protocol posts it: the sender's id and a payload
Messages == [party_id : Parties, value : Values]

\* the decimal digits of a number, as serde_json writes it
RECURSIVE to_decimal(_)
to_decimal(n) ==
    IF n < 10 THEN <<n>> ELSE Append(to_decimal(n \div 10), n % 10)

RECURSIVE from_decimal(_, _)
from_decimal(digits, acc) ==
    IF digits = <<>> THEN acc
    ELSE from_decimal(Tail(digits), 10 * acc + Head(digits))

\* serde_json::to_vec of a message: the field names with their values
serialize(value) ==
    <<"party_id", to_decimal(value.party_id), "value", to_decimal(value.value)>>

\* serde_json::from_slice (<<>>: Error::Deserialization)
deserialize(bytes) ==
    IF Len(bytes) = 4 /\ bytes[1] = "party_id" /\ bytes[3] = "value"
    THEN <<[party_id |-> from_decimal(bytes[2], 0),
            value |-> from_decimal(bytes[4], 0)]>>
    ELSE <<>>

\* messages.iter().take(count).map(deserialize).collect(): Ok with the values,
\* or the first error
collect_result(messages, count) ==
    LET taken == take(messages, count)
        parsed == [k \in 1 .. Len(taken) |-> deserialize(taken[k])]
    IN  IF \E k \in 1 .. Len(parsed) : parsed[k] = <<>>
        THEN [tag |-> "Deserialization", messages |-> <<>>]
        ELSE [tag |-> "Ok", messages |-> [k \in 1 .. Len(parsed) |-> parsed[k][1]]]

\* the session and round the calls are about
RelaySession == 1
RelayRound == 1

PostedCount ==
    LET RECURSIVE total(_, _)
        total(map, keys) ==
            IF keys = {} THEN 0
            ELSE LET k == CHOOSE k \in keys : TRUE
                 IN  Len(map[k]) + total(map, keys \ {k})
    IN  total(broadcasts, DOMAIN broadcasts) + total(directs, DOMAIN directs)

RelayInit ==
    /\ broadcasts = <<>>
    /\ directs = <<>>
    /\ dkg = DkgIdle
    /\ tampered = {}
    /\ request = [key_shares |-> <<>>, message |-> 0, parties |-> <<>>]
    /\ dsg = DsgIdle
    /\ sig_tampered = {}
    /\ LibInit("relay")

protocolVars == <<dkgVars, dsgVars, command, clientVars, keyVars, extVars>>

\* MemoryRelay::broadcast
RelayBroadcast(message) ==
    /\ PostedCount < MaxPosts
    /\ broadcasts' = push(broadcasts, <<RelaySession, RelayRound>>,
                          serialize(message))
    /\ UNCHANGED <<directs, relayVars, protocolVars>>

\* MemoryRelay::send_direct
RelaySendDirect(to, message) ==
    /\ PostedCount < MaxPosts
    /\ directs' = push(directs, <<RelaySession, RelayRound, to>>,
                       serialize(message))
    /\ UNCHANGED <<broadcasts, relayVars, protocolVars>>

\* a party calls collect_broadcasts or collect_direct (for itself)
RelayCollect(i, kind, count) ==
    /\ calls[i].pc = "idle"
    /\ calls' = [calls EXCEPT ![i].pc = "waiting", ![i].kind = kind,
                              ![i].count = count]
    /\ UNCHANGED <<broadcasts, directs, cancelled, protocolVars>>

\* the loop of the call finds count messages under its key and returns
RelayCollectReturn(i) ==
    /\ calls[i].pc = "waiting"
    /\ \/ /\ calls[i].kind = "broadcast"
          /\ collect_ready(broadcasts, <<RelaySession, RelayRound>>,
                           calls[i].count)
          /\ calls' = [calls EXCEPT ![i].pc = "returned",
                ![i].result =
                    collect_result(broadcasts[<<RelaySession, RelayRound>>],
                                   calls[i].count)]
       \/ /\ calls[i].kind = "direct"
          /\ collect_ready(directs, <<RelaySession, RelayRound, i>>,
                           calls[i].count)
          /\ calls' = [calls EXCEPT ![i].pc = "returned",
                ![i].result =
                    collect_result(directs[<<RelaySession, RelayRound, i>>],
                                   calls[i].count)]
    /\ UNCHANGED <<broadcasts, directs, cancelled, protocolVars>>

\* the caller of the protocol raises its cancellation signal; no function of
\* Relay receives it
RaiseCancel ==
    /\ ~cancelled
    /\ cancelled' = TRUE
    /\ UNCHANGED <<broadcasts, directs, calls, protocolVars>>

RelayNext ==
    \/ \E message \in Messages : RelayBroadcast(message)
    \/ \E to \in Collectors, message \in Messages : RelaySendDirect(to, message)
    \/ \E i \in Collectors, kind \in {"broadcast", "direct"}, count \in Counts :
          RelayCollect(i, kind, count)
    \/ \E i \in Collectors : RelayCollectReturn(i)
    \/ RaiseCancel

\* a collect call that has been made keeps running
RelayFairness == \A i \in Collectors : WF_vars(RelayCollectReturn(i))

SpecRelay == RelayInit /\ [][RelayNext]_vars
FairSpecRelay == RelayInit /\ [][RelayNext]_vars /\ RelayFairness

\* ------------------------------------------------ claims: MemoryRelay
\* the list a returned collect call of party i was answered from
CallSource(i) ==
    IF calls[i].kind = "broadcast"
    THEN broadcasts[<<RelaySession, RelayRound>>]
    ELSE directs[<<RelaySession, RelayRound, i>>]

CallReturned(i) == calls[i].pc = "returned"

\* the senders of a list of messages
Senders(messages) == {messages[k].party_id : k \in 1 .. Len(messages)}

\* C11: a collect call of the in-memory relay returns one message per sender,
\* from expected_count distinct senders; a sender that posted twice is counted
\* once.
C11_DistinctSenders ==
    \A i \in Collectors :
        CallReturned(i) =>
            /\ Len(calls[i].result.messages) = calls[i].count
            /\ Cardinality(Senders(calls[i].result.messages)) = calls[i].count

\* C12: the list collect_broadcasts returns is ordered by sender id, whatever
\* the order of posting, and two parties collecting the same (session, round)
\* with the same count obtain the same sequence.
C12_OrderedBySender ==
    \A i \in Collectors :
        (CallReturned(i) /\ calls[i].kind = "broadcast") =>
            /\ \A k, l \in 1 .. Len(calls[i].result.messages) :
                  k < l => calls[i].result.messages[k].party_id
                              <= calls[i].result.messages[l].party_id
            /\ \A j \in Collectors :
                  (/\ CallReturned(j) /\ calls[j].kind = "broadcast"
                   /\ calls[j].count = calls[i].count)
                      => calls[j].result = calls[i].result

\* C13: on the in-memory relay a collect call with count returns Ok with
\* exactly count messages, the first count payloads posted under its key in
\* the order of posting, each the value whose serialisation was posted.
C13_FirstCountInOrder ==
    \A i \in Collectors :
        CallReturned(i) =>
            /\ calls[i].result.tag = "Ok"
            /\ Len(calls[i].result.messages) = calls[i].count
            /\ \A k \in 1 .. calls[i].count :
                  /\ calls[i].result.messages[k] \in Messages
                  /\ CallSource(i)[k] = serialize(calls[i].result.messages[k])
            /\ \A v, w \in Messages : serialize(v) = serialize(w) => v = w

C13_Witness ==
    \E i \in Collectors :
        /\ CallReturned(i)
        /\ Len(CallSource(i)) > calls[i].count
        /\ CallSource(i)[1] # CallSource(i)[2]
        /\ calls[i].result.messages[1].value = 43

\* C16: a collect call that is waiting when the cancellation signal is raised
\* stops waiting and fails with Cancelled.
C16_CancelledCollect ==
    \A i \in Collectors :
        (cancelled /\ calls[i].pc = "waiting")
            ~> (calls[i].pc = "returned" /\ calls[i].result.tag = "Cancelled")

\* ------------------------------------- RelayClient and the relay service
\* const MAX_ATTEMPTS of collect_broadcasts and collect_direct
MAX_ATTEMPTS == 100

\* MessageId::new; MessageId::hash is taken to be free of collisions, so the
\* formatted fields stand for their hash
MessageId(session_id, round, from, to, tag) ==
    <<session_id, round, from, to, tag>>

\* base64 STANDARD.encode / decode (<<>>: a decode error)
b64_encode(payload) == <<"base64", payload>>
b64_decode(text) ==
    IF Len(text) = 2 /\ text[1] = "base64" THEN <<text[2]>> ELSE <<>>

\* MessageStore::put: insert under the hash, replacing what was there
put(messages, id, payload) ==
    IF id \in DOMAIN messages
    THEN [messages EXCEPT ![id] = payload]
    ELSE messages @@ (id :> payload)

\* RelayClient::post_message answered by the service's post_message: the
\* payload travels base64-encoded and is stored decoded
post_message(messages, party_id, session_id, round, to, tag, payload) ==
    LET decoded == b64_decode(b64_encode(payload))
    IN  IF decoded = <<>> THEN messages
        ELSE put(messages, MessageId(session_id, round, party_id, to, tag),
                 decoded[1])

\* RelayClient::get_message answered by the service's get_message:
\* <<payload>> when found, <<>> when not
get_message(messages, session_id, round, from, to, tag) ==
    LET id == MessageId(session_id, round, from, to, tag)
    IN  IF id \in DOMAIN messages
        THEN b64_decode(b64_encode(messages[id]))
        ELSE <<>>

\* one pass of the for loop of collect_broadcasts (senders 0..count) or of
\* collect_direct (senders 0..count+1 without my_id): every message found is
\* deserialised and pushed
RECURSIVE poll_pass(_, _, _, _, _, _)
poll_pass(messages, kind, my_id, sender, last, found) ==
    IF sender > last THEN found
    ELSE IF kind = "direct" /\ sender = my_id
    THEN poll_pass(messages, kind, my_id, sender + 1, last, found)
    ELSE LET payload ==
                IF kind = "broadcast"
                THEN get_message(messages, RelaySession, RelayRound,
                                 sender, None, "broadcast")
                ELSE get_message(messages, RelaySession, RelayRound,
                                 sender, my_id, "direct")
         IN  poll_pass(messages, kind, my_id, sender + 1, last,
                 IF payload = <<>> THEN found
                 ELSE found \o deserialize(payload[1]))

ClientInit ==
    /\ broadcasts = <<>>
    /\ directs = <<>>
    /\ dkg = DkgIdle
    /\ tampered = {}
    /\ request = [key_shares |-> <<>>, message |-> 0, parties |-> <<>>]
    /\ dsg = DsgIdle
    /\ sig_tampered = {}
    /\ LibInit("relay")

clientRest ==
    <<broadcasts, directs, dkgVars, dsgVars, command, relayVars, keyVars,
      extVars>>

\* the store takes a message under a new key only while it holds fewer than
\* MaxPosts
StoreHasRoom(id) == id \in DOMAIN store \/ Cardinality(DOMAIN store) < MaxPosts

\* RelayClient::broadcast of the client of message.party_id
ClientBroadcast(message) ==
    /\ StoreHasRoom(MessageId(RelaySession, RelayRound, message.party_id,
                              None, "broadcast"))
    /\ store' = post_message(store, message.party_id, RelaySession, RelayRound,
                             None, "broadcast", serialize(message))
    /\ UNCHANGED <<poll, clientRest>>

\* RelayClient::send_direct of the client of message.party_id
ClientSendDirect(to, message) ==
    /\ message.party_id # to
    /\ StoreHasRoom(MessageId(RelaySession, RelayRound, message.party_id,
                              to, "direct"))
    /\ store' = post_message(store, message.party_id, RelaySession, RelayRound,
                             to, "direct", serialize(message))
    /\ UNCHANGED <<poll, clientRest>>

\* collect_broadcasts / collect_direct is called
ClientCollect(my_id, kind, count) ==
    /\ poll.pc = "idle"
    /\ poll' = [poll EXCEPT !.pc = "polling", !.kind = kind, !.my_id = my_id,
                            !.count = count]
    /\ UNCHANGED <<store, clientRest>>

\* one turn of the while loop: the pass over the senders, then the sleep and
\* attempts += 1 when the list is still short
ClientAttempt ==
    /\ poll.pc = "polling"
    /\ Len(poll.messages) < poll.count /\ poll.attempts < MAX_ATTEMPTS
    /\ LET messages ==
             poll_pass(store, poll.kind, poll.my_id, 0,
                       IF poll.kind = "broadcast" THEN poll.count - 1
                       ELSE poll.count,
                       poll.messages)
       IN  poll' = [poll EXCEPT !.messages = messages,
                       !.attempts = IF Len(messages) < poll.count
                                    THEN @ + 1 ELSE @]
    /\ UNCHANGED <<store, clientRest>>

\* the loop has ended: Timeout when the list is short, Ok(messages) otherwise
ClientReturn ==
    /\ poll.pc = "polling"
    /\ ~(Len(poll.messages) < poll.count /\ poll.attempts < MAX_ATTEMPTS)
    /\ poll' = [poll EXCEPT !.pc = "returned",
                  !.result = IF Len(poll.messages) < poll.count
                             THEN [tag |-> "Timeout", messages |-> <<>>]
                             ELSE [tag |-> "Ok", messages |-> poll.messages]]
    /\ UNCHANGED <<store, clientRest>>

ClientNext ==
    \/ \E message \in Messages : ClientBroadcast(message)
    \/ \E to \in Collectors, message \in Messages : ClientSendDirect(to, message)
    \/ \E my_id \in Collectors, kind \in {"broadcast", "direct"},
          count \in Counts : ClientCollect(my_id, kind, count)
    \/ ClientAttempt
    \/ ClientReturn

SpecClient == ClientInit /\ [][ClientNext]_vars

\* ------------------------------------------------ claims: RelayClient
\* the senders that have posted the message the call of poll asks for
PostedSenders ==
    {p \in Parties :
        IF poll.kind = "broadcast"
        THEN MessageId(RelaySession, RelayRound, p, None, "broadcast")
                \in DOMAIN store
        ELSE MessageId(RelaySession, RelayRound, p, poll.my_id, "direct")
                \in DOMAIN store}

\* C14: a collect call of RelayClient ends with Ok only when expected_count
\* distinct senders have posted, and then with exactly expected_count
\* messages, one per sender; with fewer senders by the end of the attempts it
\* ends with Timeout.
C14_ClientDistinctSenders ==
    poll.pc = "returned" =>
        IF Cardinality(PostedSenders) >= poll.count
        THEN poll.result.tag = "Ok" =>
                /\ Len(poll.result.messages) = poll.count
                /\ Cardinality(Senders(poll.result.messages)) = poll.count
        ELSE poll.result.tag = "Timeout"

\* ------------------------------------------- the party's subcommands
\* main: the parties of one run were all started with the same subcommand,
\* keygen (run_dkg) or sign (run_dsg)
PartyInit == DkgInit \/ DsgInit

KeygenNext == command = "keygen" /\ DkgNext
SignNext == command = "sign" /\ DsgNext

SpecParty == PartyInit /\ [][KeygenNext \/ SignNext]_vars

\* ------------------------------------------------ claims: round order
\* party i has sent a Round-2 share of run_dkg
DkgSentShares(i) ==
    \E key \in DOMAIN directs :
        key[2] = 2 /\ \E k \in 1 .. Len(directs[key]) : directs[key][k].from = i

\* party i has broadcast its message of the given round of run_dsg
DsgPosted(i, round) ==
    \E key \in DOMAIN broadcasts :
        /\ key[2] = round
        /\ \E k \in 1 .. Len(broadcasts[key]) : broadcasts[key][k].party_id = i

\* the relay holds at least count broadcasts for (session_id, round)
HoldsCount(session_id, round, count) ==
    /\ <<session_id, round>> \in DOMAIN broadcasts
    /\ Len(broadcasts[<<session_id, round>>]) >= count

\* C15: a party posts its round k+1 messages only after its own collect for
\* round k has returned the full expected count: in run_dkg the Round-2 shares
\* follow the completed Round-1 collection, in run_dsg the Round-2 broadcast
\* follows the completed Round-1 collection and the Round-3 partial signature
\* the completed Round-2 collection.
C15_RoundOrder ==
    [][\A i \in Parties :
        /\ (command = "keygen" /\ ~DkgSentShares(i) /\ DkgSentShares(i)')
              => /\ HoldsCount(DkgConfig(i).session_id, 1, NParties)
                 /\ Len(dkg'[i].all_commitments) = NParties
        /\ (command = "sign" /\ ~DsgPosted(i, 2) /\ DsgPosted(i, 2)')
              => /\ HoldsCount(dsg[i].session_id, 1, Len(request.parties))
                 /\ Len(dsg'[i].round1_msgs) = Len(request.parties)
        /\ (command = "sign" /\ ~DsgPosted(i, 3) /\ DsgPosted(i, 3)')
              => /\ DsgPosted(i, 2)
                 /\ HoldsCount(dsg[i].session_id, 2, Len(request.parties))
      ]_vars

C15_Witness ==
    \E i, j \in Parties :
        /\ command = "sign"
        /\ DsgPosted(i, 3) /\ dsg[i].pc = "collect3"
        /\ DsgPosted(j, 2) /\ ~DsgPosted(j, 3)

\* ------------------------------------------- key refresh, derivation
\* bounds: child indices are 0..MaxIndex, paths have up to MaxDepth components
MaxIndex == 1
MaxDepth == 2

\* a parsed path component: ChildIndex::Normal(index) / Hardened(index)
ChildIndices == [index : 0 .. MaxIndex, hardened : BOOLEAN]
\* the component lists DerivationPath::parse yields
Paths == UNION {[1 .. len -> ChildIndices] : len \in 0 .. MaxDepth}

\* every choice of the parties' polynomials in a key generation
AllPolys == [Parties -> [1 .. Threshold -> Coefs]]

\* the KeyShares of a key generation; every party drew its own chain_code
KeySharesWith(polys, chain_codes) ==
    [i \in Parties |->
        [KeySharesOf(polys)[i] EXCEPT !.chain_code = chain_codes[i]]]

\* a refresh that returns a share under another public key
run_key_refresh_rekeyed(config, key_share) ==
    [tag |-> "Ok",
     key_share |-> [key_share EXCEPT
                      !.public_key = to_encoded_point(GENERATOR)]]

\* run_key_refresh: Ok(key_share.clone()); config and relay are not used
run_key_refresh(config, key_share) ==
    [tag |-> "Ok", key_share |-> key_share]

\* ChildIndex::is_hardened (the variant below never says so)
never_hardened(child_index) == FALSE

is_hardened(child_index) == child_index.hardened

\* u32::to_be_bytes
to_be_bytes(index) == <<0, 0, 0, index>>

\* HMAC-SHA512 as a fixed small mixing function of the key and the data:
\* <<the first 32 bytes as an integer, the last 32 bytes as a chain code>>
RECURSIVE hmac_mix(_, _)
hmac_mix(data, acc) ==
    IF data = <<>> THEN acc
    ELSE hmac_mix(Tail(data), (31 * acc + Head(data) + 1) % 97)

hmac_sha512(key, data) ==
    LET h == hmac_mix(data, hmac_mix(<<key>>, 7))
    IN  <<h, (h \div Order) % 2>>

\* derive_non_hardened: <<new secret, new chain code>>
derive_non_hardened(parent, chain_code, index) ==
    LET result == hmac_sha512(chain_code, parent.public_key \o to_be_bytes(index))
        secret_add == reduce_bytes(result[1])
        new_chain_code == result[2]
        new_secret == (parent.secret_share + secret_add) % Order
    IN  <<new_secret, new_chain_code>>

\* the loop of derive_child over the components
RECURSIVE derive_loop(_, _, _)
derive_loop(components, current_share, current_chain_code) ==
    IF components = <<>>
    THEN [tag |-> "Ok",
          key_share |-> [current_share EXCEPT !.chain_code = current_chain_code]]
    ELSE IF is_hardened(Head(components))
    THEN [tag |-> "Derivation", key_share |-> NoKeyShare]
    ELSE LET step == derive_non_hardened(current_share, current_chain_code,
                                         Head(components).index)
         IN  derive_loop(Tail(components),
                         [current_share EXCEPT !.secret_share = step[1]],
                         step[2])

\* KeyShare::derive_child for a path that parses
derive_child(self, components) ==
    derive_loop(components, self, self.chain_code)

KeyInit(cmd, polys_set) ==
    /\ broadcasts = <<>>
    /\ directs = <<>>
    /\ dkg = DkgIdle
    /\ tampered = {}
    /\ \E polys \in polys_set, chain_codes \in [Parties -> ChainCodes] :
         request = [key_shares |-> KeySharesWith(polys, chain_codes),
                    message |-> 0, parties |-> <<>>]
    /\ dsg = DsgIdle
    /\ sig_tampered = {}
    /\ command = cmd
    /\ calls = [i \in Parties |-> NoCall]
    /\ cancelled = FALSE
    /\ store = <<>>
    /\ poll = NoPoll
    /\ refreshed = [i \in Parties |-> NoResult]
    /\ derived = [i \in Parties |-> NoResult]
    /\ ExtInit

RefreshInit ==
    /\ KeyInit("refresh", AllPolys)
    /\ path = <<>>

DeriveInit ==
    /\ KeyInit("derive", KeyGenPolys)
    /\ path \in Paths

keyRest ==
    <<broadcasts, directs, dkgVars, dsgVars, command, relayVars, clientVars,
      extVars>>

\* run_refresh: party i runs run_key_refresh on its stored KeyShare
RunKeyRefresh(i) ==
    /\ refreshed[i].tag = "Running"
    /\ refreshed' = [refreshed EXCEPT ![i] =
                        run_key_refresh(DkgConfig(i), request.key_shares[i])]
    /\ UNCHANGED <<path, derived, keyRest>>

\* run_derive: party i derives the child of its stored KeyShare
DeriveChild(i) ==
    /\ derived[i].tag = "Running"
    /\ derived' = [derived EXCEPT ![i] =
                      derive_child(request.key_shares[i], path)]
    /\ UNCHANGED <<path, refreshed, keyRest>>

RefreshNext == \E i \in Parties : RunKeyRefresh(i)
DeriveNext == \E i \in Parties : DeriveChild(i)

SpecRefresh == RefreshInit /\ [][RefreshNext]_vars
SpecDerive == DeriveInit /\ [][DeriveNext]_vars

\* ----------------------------------- claims: key refresh, derivation
\* C17: run_key_refresh returns a KeyShare with the public_key of the input
\* share, byte for byte, and the same party_id, n_parties and threshold.
C17_RefreshKeepsPublicKey ==
    \A i \in Parties :
        refreshed[i].tag # "Running" =>
            /\ refreshed[i].tag = "Ok"
            /\ refreshed[i].key_share.public_key = request.key_shares[i].public_key
            /\ refreshed[i].key_share.party_id = request.key_shares[i].party_id
            /\ refreshed[i].key_share.n_parties = request.key_shares[i].n_parties
            /\ refreshed[i].key_share.threshold = request.key_shares[i].threshold

C17_Witness ==
    \E i \in Parties :
        /\ refreshed[i].tag = "Ok"
        /\ refreshed[i].key_share.public_key # to_encoded_point(GENERATOR)
        /\ refreshed[i].key_share.public_key # to_encoded_point(IDENTITY)

\* C18: after a successful Key Refresh every party's secret_share has been
\* re-randomised with shares exchanged through the relay: it differs from the
\* old value.
C18_RefreshRerandomises ==
    (\A i \in Parties : refreshed[i].tag = "Ok") =>
        /\ \A i \in Parties :
              refreshed[i].key_share.secret_share
                 # request.key_shares[i].secret_share
        /\ DOMAIN broadcasts \cup DOMAIN directs # {}

\* the tweak a derivation added to party i's secret share
Tweak(i) ==
    (derived[i].key_share.secret_share + Order
        - request.key_shares[i].secret_share) % Order

NonHardened == \A k \in 1 .. Len(path) : ~path[k].hardened

\* the point an encoded point stands for, moved by tweak * G
Tweaked(bytes, tweak) ==
    to_encoded_point(PointAdd(from_encoded_point(bytes),
                              PointMul(GENERATOR, tweak)))

\* C19: for a non-hardened path derive_child returns a KeyShare whose
\* public_key is the parent public_key plus tweak * G and whose public_shares
\* are the parent's plus tweak * G, the tweak being what was added to the
\* secret share.
C19_ChildPublicKey ==
    \A i \in Parties :
        (derived[i].tag # "Running" /\ NonHardened) =>
            /\ derived[i].tag = "Ok"
            /\ derived[i].key_share.public_key
                 = Tweaked(request.key_shares[i].public_key, Tweak(i))
            /\ \A p \in 1 .. NParties :
                  derived[i].key_share.public_shares[p]
                     = Tweaked(request.key_shares[i].public_shares[p], Tweak(i))

\* C20: for a path with a hardened index at any position derive_child returns
\* a Derivation error and no child KeyShare, and leaves the parent KeyShare as
\* it was.
C20_HardenedRejected ==
    [][\A i \in Parties :
        (derived'[i] # derived[i] /\ ~NonHardened)
            => /\ derived'[i].tag = "Derivation"
               /\ derived'[i].key_share = NoKeyShare
               /\ request' = request
      ]_vars

C20_Witness ==
    \E i \in Parties :
        /\ derived[i].tag = "Derivation"
        /\ Len(path) = MaxDepth
        /\ ~path[1].hardened
        /\ path[Len(path)].hardened

\* ------------------------------ pre_signature and its PreSignature in use
\* bound: create_partial_signature is called up to MaxUses times per party
MaxUses == 2

\* pre_signature up to its Round-1 collect: k_i and gamma_i, the Round-1
\* broadcast under the session_id of the caller's config
PreSigStart(i) ==
    /\ dsg[i].pc = "idle"
    /\ i \in Range(request.parties)
    /\ \E session_id \in SessionIds, k_i \in Nonces, gamma_i \in Gammas :
         /\ dsg' = [dsg EXCEPT ![i].pc = "collect1",
                               ![i].session_id = session_id,
                               ![i].k_i = k_i, ![i].gamma_i = gamma_i]
         /\ broadcasts' = push(broadcasts, <<session_id, 1>>,
               [party_id |-> i,
                k_commitment |-> to_encoded_point(PointMul(GENERATOR, k_i)),
                gamma_commitment |->
                   to_encoded_point(PointMul(GENERATOR, gamma_i))])
    /\ UNCHANGED <<directs, dkgVars, libVars, request, sig_tampered>>

\* the Round-2 collect returns and pre_signature hands out the PreSignature
PreSigReturn(i) ==
    /\ dsg[i].pc = "collect2"
    /\ collect_ready(broadcasts, <<dsg[i].session_id, 2>>, Len(request.parties))
    /\ LET pre == pre_signature(request.key_shares[i],
                                DsgConfig(i, dsg[i].session_id),
                                dsg[i].k_i, dsg[i].round1_msgs)
       IN  IF pre.tag # "Ok"
           THEN dsg' = DsgReturn(i, pre.tag, NoSignature)
           ELSE dsg' = [dsg EXCEPT ![i].pc = "presigned",
                                   ![i].pre_sig = pre.pre_sig]
    /\ UNCHANGED <<broadcasts, directs, dkgVars, libVars, request, sig_tampered>>

\* the holder of the PreSignature calls create_partial_signature for a message
CreatePartial(i, message) ==
    /\ dsg[i].pc = "presigned"
    /\ Len(partial_sigs[i]) < MaxUses
    /\ partial_sigs' = [partial_sigs EXCEPT ![i] =
          Append(@, [message |-> message,
                     partial |-> create_partial_signature(
                                    request.key_shares[i], dsg[i].pre_sig,
                                    message)])]
    /\ UNCHANGED <<broadcasts, directs, dkgVars, dsgVars, command, relayVars,
                   clientVars, keyVars, storeVars, created, configs>>

PreSigNext ==
    \E i \in Parties :
        \/ PreSigStart(i) \/ DsgRound2(i) \/ PreSigReturn(i)
        \/ \E message \in Digests : CreatePartial(i, message)

\* the key shares and the party list as for run_dsg; pre_signature takes no
\* message
PreSigInit == DsgInit /\ request.message = 0

SpecPreSig == PreSigInit /\ [][PreSigNext]_vars

\* --------------------------------------------- claims: PreSignature use
\* C21: a PreSignature is single-use: after it has made a partial signature
\* for one message, create_partial_signature with the same PreSignature and
\* another message is rejected, so the partial signatures made from one
\* PreSignature are all for the same message.
C21_SingleUse ==
    \A i \in Parties :
        \A a, b \in DOMAIN partial_sigs[i] :
            partial_sigs[i][a].message = partial_sigs[i][b].message

\* ------------------------------------------- claims: degenerate r and s
\* C22: when the combined values have r = 0 or s = 0 no Signature is returned
\* for that attempt (the protocol is retried, at most three times, then a
\* crypto failure is surfaced): a Signature with r = 0 or s = 0 is never
\* returned.
C22_NoZeroSignature ==
    \A i \in Parties :
        SignedOk(i) =>
            /\ reduce_bytes(dsg[i].result.signature.r) # 0
            /\ reduce_bytes(dsg[i].result.signature.s) # 0

\* -------------------------------------- MessageStore and the relay service
\* bounds: the clock runs from 0 to MaxTime, the store is given up to
\* MaxStored keys, the service was started with --ttl TtlSeconds
MaxTime == 2
MaxStored == 2
TtlSeconds == 1

\* strings are lists of characters
Digit == <<"0", "1", "2", "3", "4", "5", "6", "7", "8", "9">>

\* usize / u32 to_string
RECURSIVE to_string(_)
to_string(n) ==
    IF n < 10 THEN <<Digit[n + 1]>>
    ELSE Append(to_string(n \div 10), Digit[(n % 10) + 1])

\* Option<usize>.map(|v| v.to_string()).unwrap_or_default()
unwrap_or_default(v) == IF v = None THEN <<>> ELSE to_string(v)

\* the payloads a request to the service carries
Payloads == {<<1, 2, 3>>, <<4>>}

MessageId_new(session_id, round, from, to, tag) ==
    [session_id |-> session_id, round |-> round, from |-> from, to |-> to,
     tag |-> tag]

\* the ids the requests carry: two that differ in the round only, and two
\* whose session_id and tag hold the separator
MessageIds ==
    {MessageId_new(<<"s">>, 1, None, None, <<"t">>),
     MessageId_new(<<"s">>, 2, None, None, <<"t">>),
     MessageId_new(<<"s", ":", "1">>, 1, None, None, <<"t">>),
     MessageId_new(<<"s">>, 1, 1, None, <<":", "t">>)}

\* format!("{}:{}:{}:{}:{}", session_id, round, from, to, tag)
canonical_string(id) ==
    id.session_id \o <<":">> \o to_string(id.round) \o <<":">>
        \o unwrap_or_default(id.from) \o <<":">>
        \o unwrap_or_default(id.to) \o <<":">> \o id.tag

\* hex::encode(blake3::hash(data)): taken to be free of collisions, so equal
\* digests mean equal data
blake3_hex(data) == <<"blake3">> \o data

\* MessageId::hash
MessageId_hash(id) == blake3_hex(canonical_string(id))

\* MessageStore::put at time t: insert under the hash, replacing the entry
MessageStore_put(map, ttl_seconds, t, id, payload) ==
    LET expires_at == t + ttl_seconds
        message == [id |-> id, payload |-> payload, created_at |-> t,
                    expires_at |-> expires_at]
        hash == MessageId_hash(id)
    IN  IF hash \in DOMAIN map THEN [map EXCEPT ![hash] = message]
        ELSE map @@ (hash :> message)

\* MessageStore::get
MessageStore_get(map, id) ==
    LET hash == MessageId_hash(id)
    IN  IF hash \in DOMAIN map
        THEN [tag |-> "Ok", message |-> map[hash]]
        ELSE [tag |-> "NotFound", message |-> NoStoredMessage]

\* MessageStore::exists
MessageStore_exists(map, id) == MessageId_hash(id) \in DOMAIN map

\* a cleanup that keeps the entries expiring at this very moment
cleanup_keep_due(map, t) ==
    [hash \in {h \in DOMAIN map : map[h].expires_at >= t} |-> map[hash]]

\* MessageStore::cleanup at time t: retain(|_, v| v.expires_at > now)
MessageStore_cleanup(map, t) ==
    [hash \in {h \in DOMAIN map : map[h].expires_at > t} |-> map[hash]]

StoreInit ==
    /\ broadcasts = <<>>
    /\ directs = <<>>
    /\ dkg = DkgIdle
    /\ tampered = {}
    /\ request = [key_shares |-> <<>>, message |-> 0, parties |-> <<>>]
    /\ dsg = DsgIdle
    /\ sig_tampered = {}
    /\ LibInit("msg-relay-svc")

storeRest ==
    <<broadcasts, directs, dkgVars, dsgVars, command, relayVars, clientVars,
      keyVars, partial_sigs, created, configs>>

\* a key not yet in the store is taken only while fewer than MaxStored are
HasRoom(id) ==
    MessageStore_exists(store_messages, id)
        \/ Cardinality(DOMAIN store_messages) < MaxStored

\* store.put(id, payload)
StorePut(id, payload) ==
    /\ HasRoom(id)
    /\ store_messages' =
          MessageStore_put(store_messages, TtlSeconds, now, id, payload)
    /\ response' = [NoResponse EXCEPT !.op = "put", !.id = id, !.tag = "Ok",
                                      !.payload = payload]
    /\ UNCHANGED <<now, storeRest>>

\* store.get(&id)
StoreGet(id) ==
    /\ LET got == MessageStore_get(store_messages, id)
       IN  response' = [NoResponse EXCEPT !.op = "get", !.id = id,
                           !.tag = got.tag, !.message = got.message]
    /\ UNCHANGED <<store_messages, now, storeRest>>

\* store.exists(&id)
StoreExists(id) ==
    /\ response' = [NoResponse EXCEPT !.op = "exists", !.id = id,
                       !.found = MessageStore_exists(store_messages, id)]
    /\ UNCHANGED <<store_messages, now, storeRest>>

\* the cleanup task of the service: cleanup_store.cleanup() at a tick of its
\* interval (found: whether an entry was removed)
StoreCleanup ==
    /\ store_messages' = MessageStore_cleanup(store_messages, now)
    /\ response' = [NoResponse EXCEPT !.op = "cleanup",
                       !.found = (store_messages' # store_messages)]
    /\ UNCHANGED <<now, storeRest>>

\* a second passes
Tick ==
    /\ now < MaxTime
    /\ now' = now + 1
    /\ UNCHANGED <<store_messages, response, storeRest>>

\* POST /v1/msg: decode the payload, put, answer with the hash
SvcPostMessage(id, payload) ==
    /\ HasRoom(id)
    /\ LET decoded == b64_decode(b64_encode(payload))
       IN  IF decoded = <<>>
           THEN /\ response' = [NoResponse EXCEPT !.op = "post_message",
                                   !.id = id, !.tag = "BAD_REQUEST"]
                /\ UNCHANGED store_messages
           ELSE /\ store_messages' = MessageStore_put(store_messages,
                                        TtlSeconds, now, id, decoded[1])
                /\ response' = [NoResponse EXCEPT !.op = "post_message",
                                   !.id = id, !.tag = "OK",
                                   !.hash = MessageId_hash(id)]
    /\ UNCHANGED <<now, storeRest>>

\* GET /v1/msg/:hash: found: false whatever the hash
SvcGetMessageByHash(hash) ==
    /\ response' = [NoResponse EXCEPT !.op = "get_message_by_hash",
                       !.tag = "OK", !.hash = hash, !.found = FALSE]
    /\ UNCHANGED <<store_messages, now, storeRest>>

StoreNext ==
    \/ \E id \in MessageIds, payload \in Payloads : StorePut(id, payload)
    \/ \E id \in MessageIds : StoreGet(id)
    \/ \E id \in MessageIds : StoreExists(id)
    \/ StoreCleanup
    \/ Tick
    \/ \E id \in MessageIds, payload \in Payloads : SvcPostMessage(id, payload)
    \/ \E id \in MessageIds : SvcGetMessageByHash(MessageId_hash(id))

SpecStore == StoreInit /\ [][StoreNext]_vars

\* -------------------------------------------------- claims: MessageStore
\* the stored messages
Stored == {store_messages[h] : h \in DOMAIN store_messages}

\* C23: after put(id, p), exists(id) is true and get(id) returns a message
\* with payload p, also when (id, p) is put a second time; get(id) for an id
\* that is not in the store (never put, or removed) returns NotFound, so a
\* message that get returns is the one stored for the id asked for.
C23_PutGet ==
    /\ response.op = "put" =>
          /\ MessageStore_exists(store_messages, response.id)
          /\ MessageStore_get(store_messages, response.id).tag = "Ok"
          /\ MessageStore_get(store_messages, response.id).message.payload
                = response.payload
    /\ response.op = "get" =>
          /\ response.tag = "NotFound"
                <=> ~\E m \in Stored : m.id = response.id
          /\ response.tag = "Ok" => response.message.id = response.id

\* C24: putting a MessageId that is already stored refreshes created_at and
\* keeps the expires_at of the first put: re-posting does not extend the
\* lifetime of a message.
C24_KeepsEarliestExpiry ==
    [][\A h \in DOMAIN store_messages \cap DOMAIN store_messages' :
          (/\ store_messages'[h] # store_messages[h]
           /\ store_messages'[h].id = store_messages[h].id)
             => /\ store_messages'[h].created_at = now
                /\ store_messages'[h].expires_at = store_messages[h].expires_at
      ]_vars

\* C25: cleanup removes every entry with expires_at <= now and no other; the
\* entries with expires_at > now stay as they were; after it, get for an id
\* whose entry had expired returns NotFound.
C25_Cleanup ==
    [][StoreCleanup =>
          /\ DOMAIN store_messages' =
                {h \in DOMAIN store_messages :
                    store_messages[h].expires_at > now}
          /\ \A h \in DOMAIN store_messages' :
                store_messages'[h] = store_messages[h]
          /\ \A id \in MessageIds :
                (/\ MessageStore_exists(store_messages, id)
                 /\ MessageStore_get(store_messages, id).message.expires_at
                       <= now)
                   => MessageStore_get(store_messages', id).tag = "NotFound"
      ]_vars

\* a cleanup has removed an entry and kept another
C25_Witness ==
    /\ response.op = "cleanup"
    /\ response.found
    /\ store_messages # <<>>

\* C26: two MessageIds have the same store key (the hash of the canonical
\* string) if and only if they are equal in all five fields: the id of a call
\* and the id of a stored message share a key exactly when they are equal.
C26_HashInjective ==
    response.op \in {"put", "get", "exists", "post_message"} =>
        \A m \in Stored :
            MessageId_hash(m.id) = MessageId_hash(response.id)
                <=> m.id = response.id

\* C29: after POST /v1/msg has stored a message and answered with its hash h,
\* GET /v1/msg/{h} finds the message and returns its payload, as long as the
\* message is in the store.
C29_GetByHash ==
    (/\ response.op = "get_message_by_hash"
     /\ response.hash \in DOMAIN store_messages)
        => /\ response.found
           /\ response.payload
                 = b64_encode(store_messages[response.hash].payload)

\* ----------------------------------------------------- SessionConfig::new
\* bound: n_parties, threshold and party_id are tried from 0 to MaxParties
MaxParties == 4

\* a constructor that accepts a threshold of 1
SessionConfig_new_min1(n_parties, threshold, party_id, session_id) ==
    IF threshold > n_parties THEN [tag |-> "InvalidConfig", config |-> NoConfig]
    ELSE IF threshold < 1 THEN [tag |-> "InvalidConfig", config |-> NoConfig]
    ELSE [tag |-> "Ok",
          config |-> [session_id |-> session_id, n_parties |-> n_parties,
                      threshold |-> threshold, party_id |-> party_id,
                      parties |-> [k \in 1 .. n_parties |-> k - 1]]]

\* SessionConfig::new; session_id is what rand::random() gave
SessionConfig_new(n_parties, threshold, party_id, session_id) ==
    IF threshold > n_parties THEN [tag |-> "InvalidConfig", config |-> NoConfig]
    ELSE IF threshold < 2 THEN [tag |-> "InvalidConfig", config |-> NoConfig]
    ELSE [tag |-> "Ok",
          config |-> [session_id |-> session_id, n_parties |-> n_parties,
                      threshold |-> threshold, party_id |-> party_id,
                      parties |-> [k \in 1 .. n_parties |-> k - 1]]]

ConfigInit ==
    /\ broadcasts = <<>>
    /\ directs = <<>>
    /\ dkg = DkgIdle
    /\ tampered = {}
    /\ request = [key_shares |-> <<>>, message |-> 0, parties |-> <<>>]
    /\ dsg = DsgIdle
    /\ sig_tampered = {}
    /\ LibInit("keygen")

\* run_keygen: SessionConfig::new(n, t, cli.party_id)
NewConfig(n_parties, threshold, party_id) ==
    /\ \E session_id \in SessionIds :
         LET made == SessionConfig_new(n_parties, threshold, party_id,
                                       session_id)
         IN  created' = [n_parties |-> n_parties, threshold |-> threshold,
                         party_id |-> party_id, tag |-> made.tag,
                         config |-> made.config]
    /\ UNCHANGED <<broadcasts, directs, dkgVars, dsgVars, command, relayVars,
                   clientVars, keyVars, partial_sigs, storeVars, configs>>

ConfigNext ==
    \E n_parties \in 0 .. MaxParties, threshold \in 0 .. MaxParties,
       party_id \in 0 .. MaxParties :
        NewConfig(n_parties, threshold, party_id)

SpecConfig == ConfigInit /\ [][ConfigNext]_vars

\* ------------------------------------------------- claims: SessionConfig
\* C27: SessionConfig::new(n, t, id) returns InvalidConfig when t > n or
\* t < 2, and otherwise a configuration with n_parties = n, threshold = t and
\* parties = 0..n-1 in order without duplicates, so that 2 <= t <= n_parties.
C27_NewConfig ==
    created.tag # "none" =>
        IF created.threshold > created.n_parties \/ created.threshold < 2
        THEN created.tag = "InvalidConfig"
        ELSE /\ created.tag = "Ok"
             /\ created.config.n_parties = created.n_parties
             /\ created.config.threshold = created.threshold
             /\ Len(created.config.parties) = created.n_parties
             /\ \A k \in 1 .. created.n_parties :
                   created.config.parties[k] = k - 1
             /\ 2 <= created.config.threshold
             /\ created.config.threshold <= created.config.n_parties

\* a configuration with the smallest threshold and as many parties
C27_Witness ==
    /\ created.tag = "Ok"
    /\ created.config.threshold = 2
    /\ created.config.n_parties = 2

\* C28: every SessionConfig a protocol runs with has its party_id among its
\* parties: SessionConfig::new rejects a party_id outside [0, n_parties) with
\* InvalidPartyId.
C28_SelfInParties ==
    created.tag # "none" =>
        /\ created.party_id >= created.n_parties => created.tag # "Ok"
        /\ created.tag = "Ok" =>
              created.config.party_id \in Range(created.config.parties)

\* ------------------------------------------- claims: peer-supplied data
\* C30: run_dkg never fails outside its error type on data a peer supplied:
\* a Round-2 message whose `from` is not the index of a collected commitment
\* vector makes run_dkg return an error value, not an out-of-bounds failure.
C30_NoPanic ==
    \A i \in Parties :
        dkg[i].pc = "returned" => dkg[i].result.tag # "Panic"

\* ----------------------------------- claims: run_dsg parties, key shares
\* C39: run_dsg treats the signing set as a set: with a parties list that
\* names fewer than threshold distinct parties (a repeated id) the call ends
\* with ThresholdNotMet and no protocol message is posted.
C39_DistinctThreshold ==
    \A i \in Parties :
        (Called(i) /\ Cardinality(SigningSet) < request.key_shares[i].threshold)
            => /\ dsg[i].pc = "returned"
               /\ dsg[i].result.tag = "ThresholdNotMet"

\* C34: after a DKG in which every party returned Ok, all parties hold the
\* same chain_code.
C34_CommonChainCode ==
    DkgAllOk =>
        \A i, j \in Parties :
            dkg[i].result.key_share.chain_code
                = dkg[j].result.key_share.chain_code

\* C33: every KeyShare run_dkg returns has n_parties public_shares, and entry
\* p is the public point of party p's final secret_share, the same in the
\* KeyShares of all parties.
C33_PublicShares ==
    \A i \in Parties :
        dkg[i].result.tag = "Ok" =>
            /\ Len(dkg[i].result.key_share.public_shares)
                  = dkg[i].result.key_share.n_parties
            /\ \A p \in Parties :
                  dkg[p].result.tag = "Ok" =>
                      /\ dkg[i].result.key_share.public_shares[p + 1]
                            = to_encoded_point(PointMul(GENERATOR,
                                 dkg[p].result.key_share.secret_share))
                      /\ dkg[i].result.key_share.public_shares
                            = dkg[p].result.key_share.public_shares

\* every party returned Ok, with shares that are not all the same and a public
\* share that is not the identity
C33_Witness ==
    /\ DkgAllOk
    /\ \E i, j \in Parties :
         dkg[i].result.key_share.secret_share
            # dkg[j].result.key_share.secret_share
    /\ \E p \in Parties :
         dkg[0].result.key_share.public_shares[p + 1]
            # to_encoded_point(IDENTITY)

\* the parties of the signing set all hold a PreSignature of one session
AllPresigned ==
    /\ DistinctParties
    /\ Cardinality(SigningSet) >= Threshold
    /\ \A i \in SigningSet : dsg[i].pc = "presigned"
    /\ \A i, j \in SigningSet : dsg[i].session_id = dsg[j].session_id

\* k = the sum of the k_i of the signing set, x = the shared secret
NonceSum == SumOver(SigningSet, [i \in SigningSet |-> dsg[i].k_i]) % Order
SharedSecret ==
    SumOver(SigningSet, [i \in SigningSet |->
        compute_lagrange_coefficient(i, request.parties)
            * request.key_shares[i].secret_share]) % Order

\* C32: after pre_signature has completed at all parties of the signing set,
\* their k_inv_share values sum to the inverse of k = sum of k_i and their
\* chi_share values sum to x times that inverse, R = k * G being the r_point
\* of every PreSignature.
C32_InverseShares ==
    AllPresigned =>
        /\ \A i \in SigningSet :
              dsg[i].pre_sig.r_point
                 = to_encoded_point(PointMul(GENERATOR, NonceSum))
        /\ SumOver(SigningSet, [i \in SigningSet |->
              reduce_bytes(dsg[i].pre_sig.k_inv_share)]) % Order
                 = invert(NonceSum)
        /\ SumOver(SigningSet, [i \in SigningSet |->
              reduce_bytes(dsg[i].pre_sig.chi_share)]) % Order
                 = (SharedSecret * invert(NonceSum)) % Order

\* ------------------------------------------ claims: multi-step derivation
\* the derivation in which every step works on the child of the step before:
\* HMAC under the previous step's chain code over the previous child's
\* public key, the share carrying the last step's chain code
RECURSIVE ChainedSteps(_, _, _)
ChainedSteps(components, share, chain_code) ==
    IF components = <<>>
    THEN [share EXCEPT !.chain_code = chain_code]
    ELSE LET result == hmac_sha512(chain_code,
                 share.public_key \o to_be_bytes(Head(components).index))
             tweak == reduce_bytes(result[1])
         IN  ChainedSteps(Tail(components),
                 [share EXCEPT !.secret_share = (@ + tweak) % Order,
                               !.public_key = Tweaked(@, tweak)],
                 result[2])

\* C35: for a path with several indices every step of derive_child computes
\* its HMAC under the chain code of the previous step and over the public key
\* of the previous step's child, and the returned share carries the last
\* step's chain code.
C35_StepsChained ==
    \A i \in Parties :
        (derived[i].tag = "Ok" /\ Len(path) >= 2) =>
            LET expected == ChainedSteps(path, request.key_shares[i],
                                         request.key_shares[i].chain_code)
            IN  /\ derived[i].key_share.secret_share = expected.secret_share
                /\ derived[i].key_share.chain_code = expected.chain_code

\* ------------------------------------------- claims: posts to MemoryRelay
\* every list of the old map is still there and is a prefix of its new list
PrefixKept(old, new) ==
    \A key \in DOMAIN old :
        /\ key \in DOMAIN new
        /\ Len(new[key]) >= Len(old[key])
        /\ SubSeq(new[key], 1, Len(old[key])) = old[key]

\* the new map is the old one with payload bytes added at the end of one list
PostedTo(old, new, key, bytes) ==
    /\ DOMAIN new = DOMAIN old \cup {key}
    /\ new[key] = (IF key \in DOMAIN old THEN old[key] ELSE <<>>) \o <<bytes>>
    /\ \A other \in DOMAIN old \ {key} : new[other] = old[other]

\* C37: posts from different tasks to one key of the in-memory relay lose no
\* message: every post adds its payload once at the end of the list under its
\* key, so after k posts the list holds those k payloads, and an existing
\* prefix of a list never changes.
C37_NoLostPost ==
    [][/\ PrefixKept(broadcasts, broadcasts')
       /\ PrefixKept(directs, directs')
       /\ broadcasts' # broadcasts =>
             \E message \in Messages :
                 PostedTo(broadcasts, broadcasts',
                          <<RelaySession, RelayRound>>, serialize(message))
       /\ directs' # directs =>
             \E to \in Collectors, message \in Messages :
                 PostedTo(directs, directs',
                          <<RelaySession, RelayRound, to>>, serialize(message))
      ]_vars

C37_Witness ==
    /\ <<RelaySession, RelayRound>> \in DOMAIN broadcasts
    /\ LET list == broadcasts[<<RelaySession, RelayRound>>]
       IN  /\ Len(list) = MaxPosts
           /\ deserialize(list[1])[1].party_id # deserialize(list[2])[1].party_id
           /\ deserialize(list[1])[1].value # deserialize(list[2])[1].value

\* ------------------------------------ the loop of a MemoryRelay collect
\* the list a collect call of party i reads, <<>> while the key is absent
CallMap(i) == IF calls[i].kind = "broadcast" THEN broadcasts ELSE directs
CallKey(i) ==
    IF calls[i].kind = "broadcast"
    THEN <<RelaySession, RelayRound>>
    ELSE <<RelaySession, RelayRound, i>>

\* the top of the loop: with count messages under the key the call returns
\* them, otherwise it goes to wait in select!
CollectCheck(i) ==
    /\ calls[i].pc = "waiting"
    /\ IF collect_ready(CallMap(i), CallKey(i), calls[i].count)
       THEN calls' = [calls EXCEPT ![i].pc = "returned",
                ![i].result = collect_result(CallMap(i)[CallKey(i)],
                                             calls[i].count)]
       ELSE calls' = [calls EXCEPT ![i].pc = "select"]
    /\ UNCHANGED <<broadcasts, directs, cancelled, protocolVars>>

\* select!: rx.recv() yields or the 100 ms sleep ends; either way the loop
\* goes round
CollectWake(i) ==
    /\ calls[i].pc = "select"
    /\ calls' = [calls EXCEPT ![i].pc = "waiting"]
    /\ UNCHANGED <<broadcasts, directs, cancelled, protocolVars>>

RelayLoopNext ==
    \/ \E message \in Messages : RelayBroadcast(message)
    \/ \E to \in Collectors, message \in Messages : RelaySendDirect(to, message)
    \/ \E i \in Collectors, kind \in {"broadcast", "direct"}, count \in Counts :
          RelayCollect(i, kind, count)
    \/ \E i \in Collectors : CollectCheck(i)
    \/ \E i \in Collectors : CollectWake(i)

\* the task of a collect call is scheduled and its timer runs
RelayLoopFairness ==
    \A i \in Collectors : WF_vars(CollectCheck(i)) /\ WF_vars(CollectWake(i))

FairSpecRelayLoop == RelayInit /\ [][RelayLoopNext]_vars /\ RelayLoopFairness

\* ------------------------------------------ claims: the loop of a collect
\* count messages have been posted under the key of party i's call
CountPosted(i) ==
    /\ CallKey(i) \in DOMAIN CallMap(i)
    /\ Len(CallMap(i)[CallKey(i)]) >= calls[i].count

\* C36: once count messages are posted under the key of a collect call of the
\* in-memory relay, the call returns Ok, also when the post lands after the
\* call's check of the list and before its wait; the call checks the list
\* again after every wake.
C36_NoLostWakeup ==
    \A i \in Collectors :
        (calls[i].pc \in {"waiting", "select"} /\ CountPosted(i))
            ~> (calls[i].pc = "returned" /\ calls[i].result.tag = "Ok")

\* the post landed after the check: the call waits with its list complete
C36_Witness ==
    \E i \in Collectors :
        /\ calls[i].pc = "select"
        /\ CountPosted(i)
        /\ \E j \in Collectors : j # i /\ CallReturned(j)

\* ------------------------------- MemoryRelay with several mailbox keys
\* bounds: the sessions and rounds that use one relay
MaxSession == 2
MaxRound == 2

RelaySessions == 1 .. MaxSession
RelayRounds == 1 .. MaxRound

\* a direct mailbox of every party but its own
direct_key_of_first(session_id, round, my_id) == <<session_id, round, 0>>

\* the keys of the two maps
broadcast_key(session_id, round) == <<session_id, round>>
direct_key(session_id, round, my_id) == <<session_id, round, my_id>>

\* a payload value that names the mailbox it is posted to (to = NParties for
\* a broadcast)
Tagged(session_id, round, to) ==
    (session_id * (MaxRound + 1) + round) * (NParties + 1) + to

\* MemoryRelay::broadcast to (session_id, round)
KeyedBroadcast(from, session_id, round) ==
    /\ PostedCount < MaxPosts
    /\ broadcasts' = push(broadcasts, broadcast_key(session_id, round),
            serialize([party_id |-> from,
                       value |-> Tagged(session_id, round, NParties)]))
    /\ UNCHANGED <<directs, relayVars, protocolVars>>

\* MemoryRelay::send_direct to (session_id, round, to)
KeyedSendDirect(from, session_id, round, to) ==
    /\ PostedCount < MaxPosts
    /\ directs' = push(directs, direct_key(session_id, round, to),
            serialize([party_id |-> from,
                       value |-> Tagged(session_id, round, to)]))
    /\ UNCHANGED <<broadcasts, relayVars, protocolVars>>

\* party i calls collect_broadcasts or collect_direct of (session_id, round)
KeyedCollect(i, kind, session_id, round, count) ==
    /\ calls[i].pc = "idle"
    /\ calls' = [calls EXCEPT ![i] =
            [pc |-> "waiting", kind |-> kind, count |-> count,
             result |-> NoCall.result,
             session_id |-> session_id, round |-> round]]
    /\ UNCHANGED <<broadcasts, directs, cancelled, protocolVars>>

\* the loop of the call finds count messages under its key and returns
KeyedCollectReturn(i) ==
    /\ calls[i].pc = "waiting"
    /\ LET map == IF calls[i].kind = "broadcast" THEN broadcasts ELSE directs
           key == IF calls[i].kind = "broadcast"
                  THEN broadcast_key(calls[i].session_id, calls[i].round)
                  ELSE direct_key(calls[i].session_id, calls[i].round, i)
       IN  /\ collect_ready(map, key, calls[i].count)
           /\ calls' = [calls EXCEPT ![i].pc = "returned",
                 ![i].result = collect_result(map[key], calls[i].count)]
    /\ UNCHANGED <<broadcasts, directs, cancelled, protocolVars>>

RelayKeyedNext ==
    \/ \E from \in Collectors, session_id \in RelaySessions,
          round \in RelayRounds : KeyedBroadcast(from, session_id, round)
    \/ \E from, to \in Collectors, session_id \in RelaySessions,
          round \in RelayRounds : KeyedSendDirect(from, session_id, round, to)
    \/ \E i \in Collectors, kind \in {"broadcast", "direct"},
          session_id \in RelaySessions, round \in RelayRounds,
          count \in Counts : KeyedCollect(i, kind, session_id, round, count)
    \/ \E i \in Collectors : KeyedCollectReturn(i)

SpecRelayKeyed == RelayInit /\ [][RelayKeyedNext]_vars

\* ------------------------------------------- claims: mailbox isolation
\* C38: on the in-memory relay a collect returns only messages posted to its
\* own key: collect_broadcasts(session, round) only broadcasts to that session
\* and round, collect_direct(session, round, p) only direct messages to p of
\* that session and round.
C38_OwnKeyOnly ==
    \A i \in Collectors :
        CallReturned(i) =>
            /\ calls[i].result.tag = "Ok"
            /\ \A k \in 1 .. Len(calls[i].result.messages) :
                  calls[i].result.messages[k].value
                     = Tagged(calls[i].session_id, calls[i].round,
                              IF calls[i].kind = "broadcast" THEN NParties
                              ELSE i)

\* a collect_direct has returned while the relay holds a broadcast and a
\* direct message of other mailboxes
C38_Witness ==
    \E i \in Collectors :
        /\ CallReturned(i)
        /\ calls[i].kind = "direct"
        /\ Len(calls[i].result.messages) >= 1
        /\ \E key \in DOMAIN directs :
              key # direct_key(calls[i].session_id, calls[i].round, i)

\* ------------------------------------- keygen as the party CLI runs it
\* run_keygen of party i up to the first collect of run_dkg: the party makes
\* its SessionConfig, samples its polynomial and broadcasts the commitments
\* under the session_id of its own configuration
CliKeygenStart(i) ==
    /\ dkg[i].pc = "round1"
    /\ \E session_id \in SessionIds, secret_poly \in [1 .. Threshold -> Coefs] :
         LET made == SessionConfig_new(NParties, Threshold, i, session_id) IN
         /\ made.tag = "Ok"
         /\ configs' = [configs EXCEPT ![i] = made.config]
         /\ dkg' = [dkg EXCEPT ![i].pc = "collect1",
                               ![i].secret_poly = secret_poly]
         /\ broadcasts' = push(broadcasts, <<made.config.session_id, 1>>,
                               [party_id |-> i,
                                commitments |-> commit_polynomial(secret_poly)])
    /\ UNCHANGED <<directs, tampered, dsgVars, command, relayVars, clientVars,
                   keyVars, partial_sigs, storeVars, created>>

\* collect_broadcasts(own session, 1, n) returns; the Round-2 shares are sent
CliRound2(i) ==
    /\ dkg[i].pc = "collect1"
    /\ collect_ready(broadcasts, <<configs[i].session_id, 1>>,
                     configs[i].n_parties)
    /\ dkg' = [dkg EXCEPT ![i].pc = "collect2",
                          ![i].all_commitments =
                              take(broadcasts[<<configs[i].session_id, 1>>],
                                   configs[i].n_parties)]
    /\ directs' = send_shares(directs, configs[i],
                              honest_shares(dkg[i].secret_poly), 1)
    /\ UNCHANGED <<broadcasts, tampered, dsgVars, libVars>>

\* collect_direct(own session, 2, i, n - 1) returns; run_dkg finishes and
\* run_keygen saves the KeyShare
CliRound3(i) ==
    /\ dkg[i].pc = "collect2"
    /\ collect_ready(directs, <<configs[i].session_id, 2, i>>,
                     configs[i].n_parties - 1)
    /\ \E chain_code \in ChainCodes :
         dkg' = [dkg EXCEPT ![i].pc = "returned",
                   ![i].result =
                      dkg_round3(configs[i], dkg[i].secret_poly,
                         dkg[i].all_commitments,
                         take(directs[<<configs[i].session_id, 2, i>>],
                              configs[i].n_parties - 1),
                         chain_code)]
    /\ UNCHANGED <<broadcasts, directs, tampered, dsgVars, libVars>>

CliNext ==
    \E i \in Parties : CliKeygenStart(i) \/ CliRound2(i) \/ CliRound3(i)

SpecCli == DkgInit /\ [][CliNext]_vars

\* ------------------------------------- claims: the session of a CLI run
\* party i has made its SessionConfig
Configured(i) == configs[i] # NoConfig

\* C31: the parties of one keygen run, each building its configuration with
\* SessionConfig::new(n, t, own id), all obtain the same session_id, so that
\* their messages meet under the same mailbox keys.
C31_CommonSession ==
    \A i, j \in Parties :
        (Configured(i) /\ Configured(j))
            => configs[i].session_id = configs[j].session_id

====
